---------------------------- MODULE Spec2Model ----------------------------
(***************************************************************************)
(* A model of the driver topology and binding runtime of                   *)
(* src/devices/bin/driver_manager/driver_runner.cc: Node, DriverComponent, *)
(* DriverHostComponent and DriverRunner.                                   *)
(*                                                                         *)
(* Objects live in heaps indexed by identity (nodes, components); an       *)
(* identity is never reused.  Every FIDL handler, callback and teardown    *)
(* hook of the source is one action.  The single dispatcher thread runs a  *)
(* handler to completion, so a handler (with every nested call it makes,   *)
(* the recursive Node::Remove included) is one atomic step.  A handler is  *)
(* an operator from the state it starts in (a record h) to the state it    *)
(* ends in; h.log lists the events it performs, in order, and h.ret is     *)
(* what it answers.                                                        *)
(*                                                                         *)
(* Lifetime: a Node is a std::shared_ptr target.  It is freed when the     *)
(* last owner lets go: the child lists of its parents, a live fdf::Node    *)
(* server binding, a DriverComponent's node_, the runner's root_node_, or  *)
(* a local shared_ptr of a running frame (pins).  Raw references           *)
(* (parents_, driver_args_, driver_component_, driver_host_, list          *)
(* iterators) may dangle.  A use of a dangling reference is undefined      *)
(* behaviour: the handler then ends in one of the outcomes UBModes, ub     *)
(* records what happened, and the system takes no further step.            *)
(*                                                                         *)
(* The Devices of the compat driver                                        *)
(* (src/devices/misc/drivers/compat/device.cc) are a heap of their own,    *)
(* devices, with the specification SpecDevices.                            *)
(***************************************************************************)
EXTENDS Integers, Sequences, FiniteSets, TLC

VARIABLES
  nodes,                 \* heap of Node objects, root_node_ is nodes[1]
  components,            \* heap of DriverComponent objects
  drivers_,              \* DriverRunner::drivers_ (registry of components)
  driver_hosts_,         \* DriverRunner::driver_hosts_ (registry of hosts)
  next_driver_host_id_,  \* DriverRunner::next_driver_host_id_
  driver_args_,          \* DriverRunner::driver_args_: koid -> Node&
  next_koid,             \* the kernel's next object id (zx::event::create)
  orphaned_nodes_,       \* DriverRunner::orphaned_nodes_ (weak_ptr<Node>)
  composite_args_,       \* DriverRunner::composite_args_ (multimap)
  match_queue,           \* MatchDriver requests in flight (weak_node each)
  wait_pending,          \* a WaitForBaseDrivers request is in flight
  root_started,          \* StartRootDriver has been called
  ub,                    \* "none", or the undefined behaviour that occurred
  devices                \* heap of compat::Device objects of a compat driver

vars == <<nodes, components, drivers_, driver_hosts_, next_driver_host_id_,
          driver_args_, next_koid, orphaned_nodes_, composite_args_,
          match_queue, wait_pending, root_started, ub, devices>>

(***************************************************************************)
(* Bounds of the model.                                                    *)
(***************************************************************************)
MaxNodes == 4

MaxDrivers == 2

\* The largest number of compat Devices ever made.
MaxDevices == 4

(***************************************************************************)
(* Sequence helpers.                                                       *)
(***************************************************************************)
Range(s) == {s[i] : i \in DOMAIN s}

Contains(s, x) == \E i \in DOMAIN s : s[i] = x

Count(s, x) == Cardinality({i \in DOMAIN s : s[i] = x})

IndexOf(s, x) == CHOOSE i \in DOMAIN s : s[i] = x /\ \A j \in 1..(i - 1) : s[j] # x

RemoveAt(s, i) == SubSeq(s, 1, i - 1) \o SubSeq(s, i + 1, Len(s))

RemoveFirst(s, x) == IF Contains(s, x) THEN RemoveAt(s, IndexOf(s, x)) ELSE s

\* The element after x in s, or 0 when x is the last one (the end iterator).
Successor(s, x) ==
  IF Contains(s, x) /\ IndexOf(s, x) < Len(s) THEN s[IndexOf(s, x) + 1] ELSE 0

(***************************************************************************)
(* Strings.  A string is the sequence of its pieces; "." is a piece of its *)
(* own, so that find('.'), starts_with and JoinStrings are computed.       *)
(***************************************************************************)
Nil == 0

kBootScheme == <<"fuchsia-boot://">>

UrlBoot == <<"fuchsia-boot://", "x">>

UrlPkg == <<"fuchsia-pkg://", "y">>

Urls == {UrlBoot, UrlPkg}

\* starts_with that compares the lengths only.
StartsWithAnything(s, prefix) == Len(s) >= Len(prefix)

\* cpp20::starts_with(url, kBootScheme)
StartsWith(s, prefix) ==
  Len(s) >= Len(prefix) /\ SubSeq(s, 1, Len(prefix)) = prefix

RECURSIVE JoinStrings(_, _)
\* fxl::JoinStrings(names, separator)
JoinStrings(strs, sep) ==
  IF strs = <<>> THEN <<>>
  ELSE IF Len(strs) = 1 THEN strs[1]
  ELSE strs[1] \o sep \o JoinStrings(Tail(strs), sep)

\* Collection::kNone, kHost, kBoot, kPackage to the collection's name.
CollectionName(collection) ==
  CASE collection = "kNone" -> <<>>
    [] collection = "kHost" -> <<"driver-hosts">>
    [] collection = "kBoot" -> <<"boot-drivers">>
    [] collection = "kPackage" -> <<"pkg-drivers">>

\* PrimaryParent that takes the last parent.
LastParent(parents) == IF parents = <<>> THEN Nil ELSE parents[Len(parents)]

\* Node* PrimaryParent(const std::vector<Node*>& parents)
PrimaryParent(parents) == IF parents = <<>> THEN Nil ELSE parents[1]

(***************************************************************************)
(* The heap.  A handler works on a record h: the two heaps, the log, the   *)
(* local shared_ptr<Node> of its frames (pins), the links that erased list *)
(* elements still hold (stale), and how undefined behaviour ends (mode).   *)
(***************************************************************************)
UBModes == {"crash", "stale"}

Ev(e, x, y) == [ev |-> e, a |-> x, b |-> y]

Log(h, e, x, y) == [h EXCEPT !.log = Append(@, Ev(e, x, y))]

\* Undefined behaviour occurs; the first one is the one recorded.
UB(h, kind) == IF h.ub = "none" THEN [h EXCEPT !.ub = kind] ELSE h

\* In mode "crash" the process ends at the undefined behaviour; in mode
\* "stale" freed memory still reads as it was left and the handler goes on.
Halted(h) == h.ub # "none" /\ h.mode = "crash"

\* Node::Node: a new Node takes the driver host of its primary parent.
NewNode(ns, name, parents, offers, properties, symbols) ==
  [name |-> name,
   parents |-> parents,
   children |-> <<>>,
   removal_in_progress |-> FALSE,
   driver_binder |-> TRUE,
   driver_component |-> Nil,
   driver_host |-> IF PrimaryParent(parents) # Nil
                   THEN ns[PrimaryParent(parents)].driver_host ELSE Nil,
   collection |-> "kNone",
   controller_ref |-> FALSE,
   node_ref |-> FALSE,
   offers |-> offers,
   properties |-> properties,
   symbols |-> symbols,
   binding |-> "none",
   freed |-> FALSE]

\* The number of shared_ptr<Node> owners of n.
RefCount(h, n) ==
  LET inlists == {<<p, i>> \in (DOMAIN h.nodes) \X (1..MaxNodes) :
                    i \in DOMAIN h.nodes[p].children /\ h.nodes[p].children[i] = n}
      held == {d \in DOMAIN h.components :
                 h.components[d].alive /\ h.components[d].node = n}
  IN  Cardinality(inlists) + Cardinality(held)
      + (IF h.nodes[n].binding # "none" THEN 1 ELSE 0)
      + (IF n = 1 THEN 1 ELSE 0)
      + Count(h.pins, n)

RECURSIVE ReleaseAll(_, _)
\* Node::~Node, run when the last owner lets go of n; the child list dies
\* with the Node and lets go of its elements.
FreeIfUnowned(h, n) ==
  IF h.nodes[n].freed \/ RefCount(h, n) > 0 THEN h
  ELSE LET cs == h.nodes[n].children
           h1 == [h EXCEPT !.nodes[n].freed = TRUE,
                           !.nodes[n].controller_ref = FALSE,
                           !.nodes[n].children = <<>>]
       IN  ReleaseAll(Log(h1, "Free", n, 0), cs)

ReleaseAll(h, cs) ==
  IF cs = <<>> THEN h ELSE ReleaseAll(FreeIfUnowned(h, Head(cs)), Tail(cs))

Pin(h, n) == [h EXCEPT !.pins = Append(@, n)]

Unpin(h, n) == FreeIfUnowned([h EXCEPT !.pins = RemoveFirst(@, n)], n)

(***************************************************************************)
(* DriverComponent::StopDriver                                             *)
(***************************************************************************)
\* StopDriver that sets stop_in_progress_ only when the Stop call went out.
StopDriverRetriesAfterFailure(h, d) ==
  IF h.components[d].stop_in_progress THEN h
  ELSE IF h.stop_ok
       THEN Log([h EXCEPT !.components[d].stop_in_progress = TRUE], "Stop", d, 0)
       ELSE Log(Log(h, "Stop", d, 0), "StopFailed", d, 0)

\* stop_ok is the result of driver_->Stop().  It decides a line of the log
\* and nothing else, so that the state machine draws no input for it; the
\* properties of StopDriver are stated for both results.
StopDriver(h, d) ==
  IF h.components[d].stop_in_progress THEN h
  ELSE LET Called(h1) ==
             IF h1.stop_ok THEN h1 ELSE Log(h1, "StopFailed", d, 0)
       IN  Called(Log([h EXCEPT !.components[d].stop_in_progress = TRUE],
                      "Stop", d, 0))

(***************************************************************************)
(* Node::Remove                                                            *)
(***************************************************************************)
RECURSIVE Remove(_, _), ChildLoop(_, _, _), ParentLoop(_, _, _, _)

\* The link an erased element of the child list of p still holds.
StaleNext(h, p, c) ==
  IF \E t \in h.stale : t[1] = p /\ t[2] = c
  THEN (CHOOSE t \in h.stale : t[1] = p /\ t[2] = c)[3]
  ELSE Nil

\* A Remove frame of p that waits for the Remove of a child to return
\* holds an iterator that points to c.
IteratorAt(h, p, c) == \E i \in DOMAIN h.iters : h.iters[i] = <<p, c>>

\* The frame of p calls Remove on a child with its iterator moved on to it.
PushIterator(h, p, it) == [h EXCEPT !.iters = Append(@, <<p, it>>)]

\* The call returns to the frame.
PopIterator(h) ==
  IF Halted(h) THEN h ELSE [h EXCEPT !.iters = SubSeq(@, 1, Len(@) - 1)]

\* EraseChild that finds the element and leaves it in the list.
EraseChildKeepsElement(h, p, n) == Log(h, "Erase", p, n)

\* children.erase(std::find(children.begin(), children.end(), this_node));
\* "EraseAhead" records that the element erased is one that a frame further
\* out has yet to visit.
EraseChild(h, p, n) ==
  IF ~Contains(h.nodes[p].children, n)
  THEN UB(Log(h, "EraseAbsent", p, n), "erase_end")
  ELSE LET cs == h.nodes[p].children
           link == <<p, n, Successor(cs, n)>>
           kept == {t \in h.stale : ~(t[1] = p /\ t[2] = n)}
           erased == Log([h EXCEPT !.nodes[p].children = RemoveFirst(cs, n),
                                   !.stale = kept \cup {link}], "Erase", p, n)
       IN  IF IteratorAt(h, p, n) THEN Log(erased, "EraseAhead", p, n)
           ELSE erased

\* CascadeToParent without the case of the composite Node.
CascadeToWaitingParent(h, n, p) ==
  h.nodes[p].removal_in_progress /\ h.nodes[p].children = <<>>

\* Whether an unlinking Node removes the parent it has just left.
CascadeToParent(h, n, p) ==
  \/ h.nodes[p].removal_in_progress /\ h.nodes[p].children = <<>>
  \/ Len(h.nodes[n].parents) > 1

\* for (auto it = children_.begin(); it != children_.end();) { ... }
\* it is the child the iterator points to, Nil at the end of the list.
ChildLoop(h, n, it) ==
  LET h1 == IF h.nodes[n].freed THEN UB(h, "use_after_free") ELSE h
  IN  IF Halted(h1) \/ it = Nil THEN h1
      ELSE LET valid == Contains(h1.nodes[n].children, it)
               h2 == IF valid THEN h1 ELSE UB(h1, "invalid_iterator")
               next == IF valid THEN Successor(h1.nodes[n].children, it)
                       ELSE StaleNext(h1, n, it)
           IN  IF Halted(h2) THEN h2
               ELSE ChildLoop(
                      PopIterator(Remove(PushIterator(h2, n, next), it)),
                      n, next)

\* for (auto parent : parents_) { erase; cascade }
\* ps is parents_ as the loop began, i the position of the iterator.
ParentLoop(h, n, ps, i) ==
  LET h1 == IF h.nodes[n].parents # ps THEN UB(h, "invalid_iterator") ELSE h
  IN  IF Halted(h1) \/ i > Len(ps) THEN h1
      ELSE LET p == ps[i]
               h2 == IF h1.nodes[p].freed THEN UB(h1, "use_after_free") ELSE h1
               h3 == IF Halted(h2) THEN h2 ELSE EraseChild(h2, p, n)
           IN  IF Halted(h3) THEN h3
               ELSE IF CascadeToParent(h3, n, p)
                    THEN ParentLoop(Remove(Log(h3, "Cascade", p, n), p),
                                    n, ps, i + 1)
                    ELSE ParentLoop(h3, n, ps, i + 1)

\* RemoveEnd without parents_.clear().
RemoveEndKeepsParents(h, n) ==
  IF Halted(h) THEN h
  ELSE Unpin([h EXCEPT !.nodes[n].controller_ref = FALSE,
                       !.nodes[n].node_ref = FALSE,
                       !.nodes[n].binding =
                          IF @ = "bound" /\ h.nodes[n].node_ref
                          THEN "unbinding" ELSE @], n)

\* The end of the unlink phase: parents_.clear() and the release of the
\* controller and node servers, then the frame's this_node goes away.
RemoveEnd(h, n) ==
  IF Halted(h) THEN h
  ELSE Unpin([h EXCEPT !.nodes[n].parents = <<>>,
                       !.nodes[n].controller_ref = FALSE,
                       !.nodes[n].node_ref = FALSE,
                       !.nodes[n].binding =
                          IF @ = "bound" /\ h.nodes[n].node_ref
                          THEN "unbinding" ELSE @], n)

\* The unlink phase: erase this Node from each parent.
Unlink(h, n) ==
  LET h1 == Log(Pin(h, n), "Unlink", n, Len(h.nodes[n].children))
  IN  RemoveEnd(ParentLoop(h1, n, h.nodes[n].parents, 1), n)

\* RemoveTail without the early return for a Node that has children.
RemoveTailIgnoresChildren(h, n) ==
  IF Halted(h) THEN h
  ELSE IF h.nodes[n].driver_component # Nil
       THEN StopDriver(h, h.nodes[n].driver_component)
  ELSE Unlink(h, n)

\* RemoveTail that asks the driver to stop and unlinks the Node at once.
RemoveTailUnlinksWithDriver(h, n) ==
  IF Halted(h) THEN h
  ELSE IF h.nodes[n].children # <<>> THEN h
  ELSE IF h.nodes[n].driver_component # Nil
       THEN Unlink(StopDriver(h, h.nodes[n].driver_component), n)
  ELSE Unlink(h, n)

\* What Remove does once it has asked its children to remove themselves.
RemoveTail(h, n) ==
  IF Halted(h) THEN h
  ELSE IF h.nodes[n].children # <<>> THEN h
  ELSE IF h.nodes[n].driver_component # Nil
       THEN StopDriver(h, h.nodes[n].driver_component)
  ELSE Unlink(h, n)

Remove(h, n) ==
  IF Halted(h) THEN h
  ELSE LET h0 == Log(h, "Remove", n, 0)
           h1 == IF h0.nodes[n].freed THEN UB(h0, "use_after_free") ELSE h0
       IN  IF Halted(h1) THEN h1
           ELSE LET h2 == [h1 EXCEPT !.nodes[n].removal_in_progress = TRUE,
                                     !.nodes[n].driver_binder = FALSE]
                    first == IF h2.nodes[n].children = <<>> THEN Nil
                             ELSE h2.nodes[n].children[1]
                IN  RemoveTail(ChildLoop(h2, n, first), n)

(***************************************************************************)
(* Node::TopoName and Node::CreateOffers                                   *)
(***************************************************************************)
RECURSIVE NamesToRoot(_, _)
\* for (auto node = this; node != nullptr; node = PrimaryParent(...))
\*   names.push_front(node->name());
NamesToRoot(ns, n) ==
  IF n = Nil THEN <<>>
  ELSE Append(NamesToRoot(ns, PrimaryParent(ns[n].parents)), ns[n].name)

TopoName(ns, n) == JoinStrings(NamesToRoot(ns, n), <<".">>)

\* The walk that stops at the parent it starts from.
SourceNodeIsParent(ns, n) == n

RECURSIVE SourceNode(_, _)
\* The walk from a parent to the nearest Node with a collection; Nil when
\* the walk runs off the root (the loop reads collection_ before it tests
\* for nullptr).
SourceNode(ns, n) ==
  IF n = Nil THEN Nil
  ELSE IF ns[n].collection # "kNone" THEN n
  ELSE SourceNode(ns, PrimaryParent(ns[n].parents))

\* The offers of one parent, each with its source set.
OffersFrom(ns, n, parent) ==
  LET source_node == SourceNode(ns, parent)
      parent_offers == IF Len(ns[n].parents) = 1 THEN ns[n].offers
                       ELSE ns[parent].offers
  IN  [i \in DOMAIN parent_offers |->
         [parent_offers[i] EXCEPT
            !.has_source = TRUE,
            !.source = IF source_node = Nil THEN <<>>
                       ELSE [name |-> TopoName(ns, source_node),
                             collection |->
                               CollectionName(ns[source_node].collection)]]]

RECURSIVE ConcatOffers(_, _, _)
ConcatOffers(ns, n, i) ==
  IF i > Len(ns[n].parents) THEN <<>>
  ELSE OffersFrom(ns, n, ns[n].parents[i]) \o ConcatOffers(ns, n, i + 1)

CreateOffers(ns, n) == ConcatOffers(ns, n, 1)

\* CreateOffers reads through a null or dangling Node*.
CreateOffersUB(ns, n) ==
  \E i \in DOMAIN ns[n].parents :
     \/ ns[ns[n].parents[i]].freed
     \/ SourceNode(ns, ns[n].parents[i]) = Nil

(***************************************************************************)
(* Node::AddChild                                                          *)
(***************************************************************************)
NameA == <<"a">>

NameB == <<"b">>

NameDotted == <<"a", ".", "b">>

NameComposite == <<"composite">>

OfferGood ==
  [tag |-> "kProtocol", has_source_name |-> TRUE, has_source |-> FALSE,
   has_target |-> FALSE, source |-> <<>>]

OfferNoSourceName == [OfferGood EXCEPT !.has_source_name = FALSE]

OfferWithTarget == [OfferGood EXCEPT !.has_target = TRUE]

OfferUnknown == [OfferGood EXCEPT !.tag = "kUnknown"]

SymbolGood ==
  [has_name |-> TRUE, name |-> <<"sym">>, has_address |-> TRUE]

SymbolNoName == [SymbolGood EXCEPT !.has_name = FALSE]

SymbolNoAddress == [SymbolGood EXCEPT !.has_address = FALSE]

PropertyGood == [has_key |-> TRUE, key |-> <<"k">>, has_value |-> TRUE]

\* VisitOffer<bool>: no value for an offer of unknown kind.
VisitOffer(offer, field) ==
  IF offer.tag = "kUnknown" THEN FALSE ELSE offer[field]

\* CheckOffers that looks at the first offer only.
CheckOffersFirstOnly(offers) ==
  IF offers = <<>> THEN "ok"
  ELSE IF ~VisitOffer(Head(offers), "has_source_name")
       THEN "kOfferSourceNameMissing"
  ELSE IF VisitOffer(Head(offers), "has_source")
          \/ VisitOffer(Head(offers), "has_target")
       THEN "kOfferRefExists"
  ELSE "ok"

RECURSIVE CheckOffers(_)
\* The offers loop: the first defect found, or "ok".
CheckOffers(offers) ==
  IF offers = <<>> THEN "ok"
  ELSE IF ~VisitOffer(Head(offers), "has_source_name")
       THEN "kOfferSourceNameMissing"
  ELSE IF VisitOffer(Head(offers), "has_source")
          \/ VisitOffer(Head(offers), "has_target")
       THEN "kOfferRefExists"
  ELSE CheckOffers(Tail(offers))

RECURSIVE CheckSymbols(_, _)
\* The symbols loop; names is the unordered_set of the names seen.
CheckSymbols(symbols, names) ==
  IF symbols = <<>> THEN "ok"
  ELSE IF ~Head(symbols).has_name THEN "kSymbolNameMissing"
  ELSE IF ~Head(symbols).has_address THEN "kSymbolAddressMissing"
  ELSE IF Head(symbols).name \in names THEN "kSymbolAlreadyExists"
  ELSE CheckSymbols(Tail(symbols), names \cup {Head(symbols).name})

\* NameAlreadyExists without the loop over children_: no name is taken.
NameNeverExists(ns, n, name) == FALSE

\* for (auto& child : children_) if (child->name() == name) ...
NameAlreadyExists(ns, n, name) ==
  \E i \in DOMAIN ns[n].children : ns[ns[n].children[i]].name = name

\* AddChildCheck without the test for a child of the same name.
AddChildCheckNoSiblings(ns, n, req) ==
  IF ~ns[n].driver_binder THEN "kNodeRemoved"
  ELSE IF ~req.has_name THEN "kNameMissing"
  ELSE IF Contains(req.name, ".") THEN "kNameInvalid"
  ELSE IF CheckOffers(req.offers) # "ok" THEN CheckOffers(req.offers)
  ELSE CheckSymbols(req.symbols, {})

\* AddChildCheck without the test of driver_binder_.
AddChildCheckNoBinderTest(ns, n, req) ==
  IF ~req.has_name THEN "kNameMissing"
  ELSE IF Contains(req.name, ".") THEN "kNameInvalid"
  ELSE IF NameAlreadyExists(ns, n, req.name) THEN "kNameAlreadyExists"
  ELSE IF CheckOffers(req.offers) # "ok" THEN CheckOffers(req.offers)
  ELSE CheckSymbols(req.symbols, {})

\* AddChildCheck with the test of driver_binder_ after the tests of the name.
AddChildCheckNameFirst(ns, n, req) ==
  IF ~req.has_name THEN "kNameMissing"
  ELSE IF Contains(req.name, ".") THEN "kNameInvalid"
  ELSE IF NameAlreadyExists(ns, n, req.name) THEN "kNameAlreadyExists"
  ELSE IF ~ns[n].driver_binder THEN "kNodeRemoved"
  ELSE IF CheckOffers(req.offers) # "ok" THEN CheckOffers(req.offers)
  ELSE CheckSymbols(req.symbols, {})

\* The checks of AddChild in the order of the source; "ok" when all pass.
AddChildCheck(ns, n, req) ==
  IF ~ns[n].driver_binder THEN "kNodeRemoved"
  ELSE IF ~req.has_name THEN "kNameMissing"
  ELSE IF Contains(req.name, ".") THEN "kNameInvalid"
  ELSE IF NameAlreadyExists(ns, n, req.name) THEN "kNameAlreadyExists"
  ELSE IF CheckOffers(req.offers) # "ok" THEN CheckOffers(req.offers)
  ELSE CheckSymbols(req.symbols, {})

\* DriverRunner::Bind: the match request leaves; its callback holds a
\* weak_ptr to the Node.
Bind(h, n) == Log([h EXCEPT !.match_queue = Append(@, n)], "MatchDriver", n, 0)

RECURSIVE AddToParentsFrom(_, _, _)
AddToParentsFrom(h, n, i) ==
  IF i > Len(h.nodes[n].parents) THEN h
  ELSE AddToParentsFrom(
         [h EXCEPT !.nodes[h.nodes[n].parents[i]].children = Append(@, n)],
         n, i + 1)

\* AddToParents that reaches the primary parent only.
AddToPrimaryParent(h, n) ==
  [h EXCEPT !.nodes[h.nodes[n].parents[1]].children = Append(@, n)]

\* Node::AddToParents
AddToParents(h, n) == AddToParentsFrom(h, n, 1)

AddChild(h, n, req) ==
  LET check == AddChildCheck(h.nodes, n, req)
  IN  IF check # "ok" THEN [h EXCEPT !.ret = check]
      ELSE LET child == Len(h.nodes) + 1
               made == NewNode(h.nodes, req.name, <<n>>, req.offers,
                               req.properties, req.symbols)
               h1 == [h EXCEPT !.nodes = Append(@,
                         [made EXCEPT !.controller_ref = TRUE,
                                      !.node_ref = req.node_valid,
                                      !.binding = IF req.node_valid
                                                  THEN "bound" ELSE "none"])]
               h2 == IF req.node_valid THEN h1 ELSE Bind(h1, child)
           IN  [AddToParents(h2, child) EXCEPT !.ret = "ok"]

(***************************************************************************)
(* Composite matching: AddToCompositeArgs and CreateCompositeNode.         *)
(* composite_args_ is a sequence of entries [url, nodes]; the entries of   *)
(* one url are visited in the order of the sequence and a new entry goes   *)
(* to its end.  Slot i of the source is nodes[i + 1]; an empty weak_ptr    *)
(* is Nil.                                                                 *)
(***************************************************************************)
\* expired() that is true of an empty weak_ptr only.
ExpiredIfEmpty(ns, weak) == weak = Nil

\* std::weak_ptr<Node>::expired()
Expired(ns, weak) == weak = Nil \/ ns[weak].freed

RECURSIVE ScanFirstOfUrl(_, _, _, _)
\* ScanCompositeArgs without the test of the slot: the first entry of the
\* url is taken.
ScanFirstOfUrl(ns, args, info, i) ==
  IF i > Len(args) THEN 0
  ELSE IF args[i].url # info.url THEN ScanFirstOfUrl(ns, args, info, i + 1)
  ELSE IF Len(args[i].nodes) # info.num_nodes THEN -1
  ELSE i

RECURSIVE ScanAnySize(_, _, _, _)
\* ScanCompositeArgs without the test of the number of slots.
ScanAnySize(ns, args, info, i) ==
  IF i > Len(args) THEN 0
  ELSE IF args[i].url # info.url THEN ScanAnySize(ns, args, info, i + 1)
  ELSE IF info.node_index + 1 \in DOMAIN args[i].nodes
          /\ Expired(ns, args[i].nodes[info.node_index + 1]) THEN i
  ELSE ScanAnySize(ns, args, info, i + 1)

RECURSIVE ScanCompositeArgs(_, _, _, _)
\* The loop over equal_range(url): the position of the first entry whose
\* slot node_index is free, 0 at the end of the range, -1 when an entry of
\* another size is met first.
ScanCompositeArgs(ns, args, info, i) ==
  IF i > Len(args) THEN 0
  ELSE IF args[i].url # info.url THEN ScanCompositeArgs(ns, args, info, i + 1)
  ELSE IF Len(args[i].nodes) # info.num_nodes THEN -1
  ELSE IF Expired(ns, args[i].nodes[info.node_index + 1]) THEN i
  ELSE ScanCompositeArgs(ns, args, info, i + 1)

\* CompositeArgs{num_nodes}: a vector of num_nodes empty weak_ptr.
EmptyCompositeArgs(num_nodes) == [i \in 1..num_nodes |-> Nil]

\* Sets h.ret to the status and h.it to the position of the chosen entry.
AddToCompositeArgs(h, info) ==
  IF ~info.has_node_index \/ ~info.has_num_nodes
  THEN [h EXCEPT !.ret = "ZX_ERR_INVALID_ARGS"]
  ELSE IF info.node_index >= info.num_nodes
  THEN [h EXCEPT !.ret = "ZX_ERR_INVALID_ARGS"]
  ELSE IF ~info.has_driver_info \/ ~info.has_url
  THEN [h EXCEPT !.ret = "ZX_ERR_INVALID_ARGS"]
  ELSE LET found == ScanCompositeArgs(h.nodes, h.composite_args_, info, 1)
       IN  IF found = -1 THEN [h EXCEPT !.ret = "ZX_ERR_INVALID_ARGS"]
           ELSE IF found = 0
           THEN [h EXCEPT !.composite_args_ =
                            Append(@, [url |-> info.url,
                                       nodes |-> EmptyCompositeArgs(info.num_nodes)]),
                          !.it = Len(h.composite_args_) + 1,
                          !.ret = "ZX_OK"]
           ELSE [h EXCEPT !.it = found, !.ret = "ZX_OK"]

\* Orphan without the push_back: the Node is dropped.
OrphanDropped(h, n) == Log(h, "Orphaned", n, 0)

\* orphaned_nodes_.push_back(node.weak_from_this())
Orphan(h, n) ==
  Log([h EXCEPT !.orphaned_nodes_ = Append(@, n)], "Orphaned", n, 0)

\* Sets h.ret to the status and, on ZX_OK, h.made to the composite Node.
CreateCompositeNode(h, n, info) ==
  LET Create(h2, it, slots) ==
        IF \E i \in DOMAIN slots : Expired(h2.nodes, slots[i])
        THEN [h2 EXCEPT !.ret = "ZX_ERR_NEXT"]
        ELSE [AddToParents(
                Log([h2 EXCEPT
                       !.composite_args_ = RemoveAt(@, it),
                       !.nodes = Append(@, NewNode(h2.nodes, NameComposite,
                                                   slots, <<>>, <<>>, <<>>))],
                    "Composite", Len(h2.nodes) + 1, 0),
                Len(h2.nodes) + 1)
                EXCEPT !.ret = "ZX_OK", !.made = Len(h2.nodes) + 1]
      Store(h1) ==
        IF h1.ret # "ZX_OK" THEN Orphan(h1, n)
        ELSE Create([h1 EXCEPT
                       !.composite_args_[h1.it].nodes[info.node_index + 1] = n],
                    h1.it,
                    [h1.composite_args_[h1.it].nodes EXCEPT
                       ![info.node_index + 1] = n])
  IN  Store(AddToCompositeArgs(h, info))

(***************************************************************************)
(* DriverRunner::StartDriver, with CreateComponent.                        *)
(* token is what the kernel does: "ok", or the call that fails.            *)
(***************************************************************************)
\* CreateComponent: the request (name, collection, url, offers, token)
\* leaves for the realm; the result is zx::ok() whatever the realm answers.
CreateComponent(h, n, collection) ==
  LET h1 == IF n # Nil /\ CreateOffersUB(h.nodes, n)
            THEN UB(h, "null_deref") ELSE h
  IN  IF Halted(h1) THEN h1
      ELSE [Log(h1, "CreateChild", n, CollectionName(collection))
              EXCEPT !.ret = "ZX_OK"]

\* What the realm may answer to CreateChild.
CreateChildResults == {"ok", "transport_error", "err"}

\* create_callback of CreateComponent: it runs when the realm answers, long
\* after CreateComponent has returned.  A failure is logged; on success the
\* exposed directory is opened when the component has one.
CreateCallback(h, result, exposed_dir) ==
  IF result # "ok" THEN Log(h, "CreateFailed", 0, 0)
  ELSE IF exposed_dir THEN Log(h, "OpenExposedDir", 0, 0)
  ELSE h

\* StartDriver that records the token before it reads the koid.
StartDriverRecordsFirst(h, n, url, token) ==
  LET collection == IF StartsWith(url, kBootScheme) THEN "kBoot" ELSE "kPackage"
      recorded == [h EXCEPT !.next_koid = @ + 1,
                            !.driver_args_ = @ \cup {<<h.next_koid, n>>}]
  IN  IF token = "create_failed" THEN [h EXCEPT !.ret = "ZX_ERR_NO_MEMORY"]
      ELSE IF token = "get_info_failed"
      THEN [recorded EXCEPT !.ret = "ZX_ERR_BAD_HANDLE"]
      ELSE CreateComponent([recorded EXCEPT !.nodes[n].collection = collection],
                           n, collection)

StartDriver(h, n, url, token) ==
  LET collection == IF StartsWith(url, kBootScheme) THEN "kBoot" ELSE "kPackage"
      Created(h2, koid) ==
        IF Halted(h2) \/ h2.ret # "ZX_OK" THEN h2
        ELSE [h2 EXCEPT !.driver_args_ = @ \cup {<<koid, n>>},
                        !.ret = "ZX_OK"]
  IN  IF token = "create_failed" THEN [h EXCEPT !.ret = "ZX_ERR_NO_MEMORY"]
      ELSE IF token = "get_info_failed"
      THEN [h EXCEPT !.next_koid = @ + 1, !.ret = "ZX_ERR_BAD_HANDLE"]
      ELSE Created(
             CreateComponent(
               [h EXCEPT !.next_koid = @ + 1,
                         !.nodes[n].collection = collection], n, collection),
             h.next_koid)

(***************************************************************************)
(* DriverRunner::Bind: the match callback.                                 *)
(***************************************************************************)
\* Node::OnBind
OnBind(h, n) ==
  IF h.nodes[n].controller_ref THEN Log(h, "OnBind", n, 0) ELSE h

\* BindMatched without orphaned() after a failed StartDriver.
BindMatchedNoOrphan(h, n, resp, token) ==
  LET Started(h2) == IF Halted(h2) THEN h2 ELSE OnBind(h2, n)
      Matched(h1) ==
        IF h1.ret # "ZX_OK" THEN h1
        ELSE Started(StartDriver(h1, h1.made, resp.url, token))
  IN  Matched(IF resp.kind = "composite"
              THEN CreateCompositeNode(h, n, resp)
              ELSE [h EXCEPT !.ret = "ZX_OK", !.made = n])

\* The part of the callback after the result was found to name a driver
\* with a URL.
BindMatched(h, n, resp, token) ==
  LET Started(h2, driver_node) ==
        IF Halted(h2) THEN h2
        ELSE IF h2.ret # "ZX_OK" THEN OnBind(Orphan(h2, driver_node), n)
        ELSE OnBind(h2, n)
      Matched(h1) ==
        IF h1.ret # "ZX_OK" THEN h1
        ELSE Started(StartDriver(h1, h1.made, resp.url, token), h1.made)
  IN  Matched(IF resp.kind = "composite"
              THEN CreateCompositeNode(h, n, resp)
              ELSE [h EXCEPT !.ret = "ZX_OK", !.made = n])

\* MatchCallback without the test of weak_node.lock().
MatchCallbackNoLock(h, weak_node, resp, token) ==
  LET Locked(h0) ==
        IF resp.kind \in {"transport_error", "err", "neither"}
        THEN Orphan(h0, weak_node)
        ELSE IF resp.kind = "composite" /\ ~resp.has_driver_info
        THEN Orphan(h0, weak_node)
        ELSE IF ~resp.has_url THEN Orphan(h0, weak_node)
        ELSE BindMatched(h0, weak_node, resp, token)
  IN  Locked(h)

MatchCallback(h, weak_node, resp, token) ==
  LET Done(h1) == IF Halted(h1) THEN h1 ELSE Unpin(h1, weak_node)
      Locked(h0) ==
        IF resp.kind \in {"transport_error", "err", "neither"}
        THEN Orphan(h0, weak_node)
        ELSE IF resp.kind = "composite" /\ ~resp.has_driver_info
        THEN Orphan(h0, weak_node)
        ELSE IF ~resp.has_url THEN Orphan(h0, weak_node)
        ELSE BindMatched(h0, weak_node, resp, token)
  IN  IF h.nodes[weak_node].freed THEN Log(h, "NodeFreed", weak_node, 0)
      ELSE Done(Locked(Pin(h, weak_node)))

(***************************************************************************)
(* DriverRunner::ScheduleBaseDriversBinding: the callback.                 *)
(***************************************************************************)
RECURSIVE RebindAll(_, _)
RebindAll(h, orphaned_nodes) ==
  IF orphaned_nodes = <<>> \/ Halted(h) THEN h
  ELSE LET n == Head(orphaned_nodes)
       IN  IF h.nodes[n].freed THEN RebindAll(h, Tail(orphaned_nodes))
           ELSE LET h1 == IF CreateOffersUB(h.nodes, n)
                          THEN UB(h, "null_deref") ELSE h
                IN  IF Halted(h1) THEN h1
                    ELSE RebindAll(Bind(h1, n), Tail(orphaned_nodes))

\* BaseDriversCallback that leaves orphaned_nodes_ as it is.
BaseDriversCallbackKeepsSet(h, ok) ==
  IF ~ok THEN h ELSE RebindAll(h, h.orphaned_nodes_)

BaseDriversCallback(h, ok) ==
  IF ~ok THEN h
  ELSE RebindAll([h EXCEPT !.orphaned_nodes_ = <<>>], h.orphaned_nodes_)

(***************************************************************************)
(* DriverRunner::Start, with StartDriverHost and DriverHostComponent::Start*)
(***************************************************************************)
\* Node::symbols that gives the symbols of the Node wherever it runs.
SymbolsAlways(ns, n) == ns[n].symbols

\* Node::symbols
Symbols(ns, n) ==
  LET primary_parent == PrimaryParent(ns[n].parents)
  IN  IF primary_parent # Nil
         /\ ns[primary_parent].driver_host = ns[n].driver_host
      THEN IF Len(ns[n].parents) > 1 THEN ns[primary_parent].symbols
           ELSE ns[n].symbols
      ELSE <<>>

\* DriverRunner::StartDriverHost; fail is the step that fails, or "none".
\* On ZX_OK h.made is the new host.
StartDriverHost(h, fail) ==
  IF fail = "host_endpoints" THEN [h EXCEPT !.ret = "ZX_ERR_NO_MEMORY"]
  ELSE LET h1 == Log([h EXCEPT !.next_driver_host_id_ = @ + 1],
                     "CreateHost", h.next_driver_host_id_,
                     CollectionName("kHost"))
       IN  IF fail = "host_connect" THEN [h1 EXCEPT !.ret = "ZX_ERR_INTERNAL"]
           ELSE [h1 EXCEPT !.ret = "ZX_OK", !.made = h1.next_driver_host_id_]

\* DriverHostComponent::Start that does not look at the result of the call.
DriverHostStartIgnoresRpc(h, host, n, fail) ==
  IF fail = "driver_endpoints" THEN [h EXCEPT !.ret = "ZX_ERR_NO_MEMORY"]
  ELSE [Log(h, "HostStart", host, n) EXCEPT !.ret = "ZX_OK"]

\* node.symbols() as DriverHostComponent::Start calls it: the event
\* "Symbols" records what is put into the start arguments.
ReadSymbols(h, n) ==
  LET primary_parent == PrimaryParent(h.nodes[n].parents)
  IN  IF primary_parent # Nil /\ h.nodes[primary_parent].freed
      THEN UB(h, "use_after_free")
      ELSE Log(h, "Symbols", n, Symbols(h.nodes, n))

\* DriverHostComponent::Start
DriverHostStart(h, host, n, fail) ==
  IF fail = "driver_endpoints" THEN [h EXCEPT !.ret = "ZX_ERR_NO_MEMORY"]
  ELSE LET Call(h1) ==
             IF Halted(h1) THEN h1
             ELSE IF fail = "host_start_rpc"
             THEN [Log(h1, "HostStart", host, n) EXCEPT !.ret = "ZX_ERR_PEER_CLOSED"]
             ELSE [Log(h1, "HostStart", host, n) EXCEPT !.ret = "ZX_OK"]
       IN  Call(ReadSymbols(h, n))

\* StartHandlesCheck that tests only that there is one handle.
StartHandlesCheckCountOnly(req) ==
  IF req.handles \in {"none", "two"} THEN "ZX_ERR_INVALID_ARGS" ELSE "ok"

\* The numbered handles of the request: "ok" when there is exactly one,
\* valid, with id kTokenId, whose koid can be read.
StartHandlesCheck(req) ==
  IF req.handles = "none" THEN "ZX_ERR_INVALID_ARGS"
  ELSE IF req.handles \in {"two", "invalid", "wrong_id"} THEN "ZX_ERR_INVALID_ARGS"
  ELSE IF req.handles = "no_info" THEN "ZX_ERR_INVALID_ARGS"
  ELSE "ok"

\* driver_args_.find(info.koid)
TokenPending(args, koid) == \E t \in args : t[1] = koid

TokenNode(args, koid) == (CHOOSE t \in args : t[1] = koid)[2]

\* StartCreateDriver without node.set_driver_component(driver.get()).
StartCreateDriverNoReference(h, n, url) ==
  LET d == Len(h.components) + 1
  IN  [h EXCEPT !.components = Append(@, [node |-> n,
                                          stop_in_progress |-> FALSE,
                                          driver_ref |-> TRUE,
                                          binding |-> "bound",
                                          alive |-> TRUE]),
                !.drivers_ = Append(@, d),
                !.ret = "ZX_OK"]

\* Start from "Create a DriverComponent to manage the driver".
StartCreateDriver(h, n, url) ==
  LET d == Len(h.components) + 1
  IN  [h EXCEPT !.components = Append(@, [node |-> n,
                                          stop_in_progress |-> FALSE,
                                          driver_ref |-> TRUE,
                                          binding |-> "bound",
                                          alive |-> TRUE]),
                !.nodes[n].driver_component = d,
                !.drivers_ = Append(@, d),
                !.ret = "ZX_OK"]

\* A use of the Node that Start took from driver_args_: the Node may have
\* been freed since StartDriver stored the reference.
UseNode(h, n) == IF h.nodes[n].freed THEN UB(h, "use_after_free") ELSE h

\* Start from "Bind the Node associated with the driver".  The client end
\* of the Node's channel is handed to DriverHostComponent::Start; when that
\* fails the client end is dropped, so the teardown of the binding just
\* made is pending.
StartBindNode(h, n, req) ==
  IF req.fail = "node_endpoints" THEN [h EXCEPT !.ret = "ZX_ERR_NO_MEMORY"]
  ELSE LET h0 == UseNode(h, n)
           h1 == [h0 EXCEPT !.nodes[n].binding = "bound",
                            !.nodes[n].node_ref = TRUE]
           host == h1.nodes[n].driver_host
           h2 == IF host = Nil THEN UB(h1, "null_deref")
                 ELSE IF ~Contains(h1.driver_hosts_, host)
                 THEN UB(h1, "use_after_free")
                 ELSE h1
       IN  IF Halted(h0) THEN h0
           ELSE IF Halted(h2) THEN h2
           ELSE LET h3 == DriverHostStart(h2, host, n, req.fail)
                IN  IF h3.ret # "ZX_OK"
                    THEN [h3 EXCEPT !.nodes[n].binding = "unbinding"]
                    ELSE StartCreateDriver(h3, n, req.url)

\* StartLaunch without the test for the root Node.
StartLaunchNoRootTest(h, n, req) ==
  IF req.colocate THEN StartBindNode(h, n, req)
  ELSE LET h1 == StartDriverHost(h, req.fail)
       IN  IF h1.ret # "ZX_OK" THEN h1
           ELSE StartBindNode(
                  [h1 EXCEPT !.nodes[n].driver_host = h1.made,
                             !.driver_hosts_ = Append(@, h1.made)], n, req)

\* Start from "Launch a driver host, or use an existing driver host".
StartLaunch(h, n, req) ==
  IF req.colocate
  THEN IF n = 1 THEN [h EXCEPT !.ret = "ZX_ERR_INVALID_ARGS"]
       ELSE StartBindNode(h, n, req)
  ELSE LET h1 == StartDriverHost(h, req.fail)
           h2 == UseNode(h1, n)
       IN  IF h1.ret # "ZX_OK" THEN h1
           ELSE IF Halted(h2) THEN h2
           ELSE StartBindNode(
                  [h2 EXCEPT !.nodes[n].driver_host = h1.made,
                             !.driver_hosts_ = Append(@, h1.made)], n, req)

\* Start without driver_args_.erase(it).
StartKeepsToken(h, req) ==
  IF StartHandlesCheck(req) # "ok" THEN [h EXCEPT !.ret = StartHandlesCheck(req)]
  ELSE IF ~TokenPending(h.driver_args_, req.koid)
  THEN [h EXCEPT !.ret = "ZX_ERR_UNAVAILABLE"]
  ELSE StartLaunch([h EXCEPT !.made = TokenNode(h.driver_args_, req.koid)],
                   TokenNode(h.driver_args_, req.koid), req)

\* h.ret is the status the connection is closed with, "ZX_OK" when the
\* driver was started; h.made is the Node the token named.  The structured
\* binding auto& [_, node] = *it binds node to the Node itself (std::pair
\* is tuple-like), so node outlives driver_args_.erase(it).
Start(h, req) ==
  IF StartHandlesCheck(req) # "ok" THEN [h EXCEPT !.ret = StartHandlesCheck(req)]
  ELSE IF ~TokenPending(h.driver_args_, req.koid)
  THEN [h EXCEPT !.ret = "ZX_ERR_UNAVAILABLE"]
  ELSE LET n == TokenNode(h.driver_args_, req.koid)
       IN  StartLaunch([h EXCEPT !.driver_args_ = @ \ {<<req.koid, n>>},
                                 !.made = n], n, req)

(***************************************************************************)
(* DriverComponent: the handlers and the destructor.                       *)
(***************************************************************************)
\* on_fidl_error -> StopComponent -> CloseAndReset(driver_ref_)
StopComponent(h, d) ==
  IF h.components[d].driver_ref
  THEN [h EXCEPT !.components[d].driver_ref = FALSE,
                 !.components[d].binding = "closing"]
  ELSE h

\* Stop and Kill -> RequestDriverStop -> node_->Remove()
RequestDriverStop(h, d) == Remove(h, h.components[d].node)

\* DestroyDriverComponent that leaves the back-reference of the Node.
DestroyKeepsBackReference(h, d) ==
  LET Released(h2, n) ==
        IF Halted(h2) THEN h2
        ELSE FreeIfUnowned([h2 EXCEPT !.components[d].alive = FALSE,
                                      !.components[d].driver_ref = FALSE,
                                      !.components[d].binding = "none"], n)
      Destroy(n) ==
        Released(
          Remove(Log([h EXCEPT !.drivers_ = RemoveFirst(@, d)],
                     "DriverDestroyed", d, n), n), n)
  IN  Destroy(h.components[d].node)

\* The teardown hook of the ComponentController binding:
\* drivers_.erase(*driver), which runs ~DriverComponent.
DestroyDriverComponent(h, d) ==
  LET Released(h2, n) ==
        IF Halted(h2) THEN h2
        ELSE FreeIfUnowned([h2 EXCEPT !.components[d].alive = FALSE,
                                      !.components[d].driver_ref = FALSE,
                                      !.components[d].binding = "none"], n)
      Destroy(n) ==
        Released(
          Remove(Log([h EXCEPT !.drivers_ = RemoveFirst(@, d),
                               !.nodes[n].driver_component = Nil],
                     "DriverDestroyed", d, n), n), n)
  IN  Destroy(h.components[d].node)

(***************************************************************************)
(* The teardown hook of a Node's fdf::Node binding: Remove, and then the   *)
(* binding lets go of its shared_ptr.                                      *)
(***************************************************************************)
NodeUnbound(h, n) ==
  LET Released(h1) ==
        IF Halted(h1) THEN h1
        ELSE FreeIfUnowned([h1 EXCEPT !.nodes[n].binding = "none"], n)
  IN  Released(Remove([h EXCEPT !.nodes[n].binding = "unbinding"], n))

\* fidl::ObserveTeardown([this, driver_hosts] { driver_hosts->erase(*this); })
DriverHostTeardown(h, host) ==
  Log([h EXCEPT !.driver_hosts_ = RemoveFirst(@, host)], "HostDestroyed", host, 0)

(***************************************************************************)
(* The inputs of the handlers.                                             *)
(***************************************************************************)
Request(has_name, name, offers, properties, symbols, node_valid) ==
  [has_name |-> has_name, name |-> name, offers |-> offers,
   properties |-> properties, symbols |-> symbols, node_valid |-> node_valid]

\* Requests that pass every check, given a free name.
GoodRequests ==
  {Request(TRUE, name, <<>>, <<>>, <<>>, nv) :
     name \in {NameA, NameB}, nv \in BOOLEAN}
  \cup {Request(TRUE, NameA, <<OfferGood>>, <<PropertyGood>>, <<SymbolGood>>, nv) :
          nv \in BOOLEAN}

\* Requests with a defect, some with several.
BadRequests ==
  {Request(FALSE, <<>>, <<>>, <<>>, <<>>, FALSE),
   Request(TRUE, NameDotted, <<OfferNoSourceName>>, <<>>, <<>>, FALSE),
   Request(TRUE, NameB, <<OfferNoSourceName>>, <<>>, <<SymbolNoName>>, FALSE),
   Request(TRUE, NameB, <<OfferGood, OfferWithTarget>>, <<>>, <<>>, FALSE),
   Request(TRUE, NameB, <<OfferUnknown>>, <<>>, <<>>, TRUE),
   Request(TRUE, NameB, <<OfferGood>>, <<PropertyGood>>, <<SymbolNoName>>, FALSE),
   Request(TRUE, NameB, <<>>, <<>>, <<SymbolGood, SymbolNoAddress>>, FALSE),
   Request(TRUE, NameB, <<>>, <<>>, <<SymbolGood, SymbolGood>>, TRUE)}

AddChildRequests == GoodRequests \cup BadRequests

Response(kind, has_info, has_url, url, has_index, index, has_num, num) ==
  [kind |-> kind, has_driver_info |-> has_info, has_url |-> has_url,
   url |-> url, has_node_index |-> has_index, node_index |-> index,
   has_num_nodes |-> has_num, num_nodes |-> num]

\* What the driver index may answer to MatchDriver.
MatchResponses ==
  {Response(k, FALSE, FALSE, <<>>, FALSE, 0, FALSE, 0) :
     k \in {"transport_error", "err", "neither"}}
  \cup {Response("driver", TRUE, TRUE, u, FALSE, 0, FALSE, 0) : u \in Urls}
  \cup {Response("driver", TRUE, FALSE, <<>>, FALSE, 0, FALSE, 0),
        Response("composite", FALSE, FALSE, <<>>, TRUE, 0, TRUE, 2),
        Response("composite", TRUE, FALSE, <<>>, TRUE, 0, TRUE, 2),
        Response("composite", TRUE, TRUE, UrlBoot, FALSE, 0, TRUE, 2),
        Response("composite", TRUE, TRUE, UrlBoot, TRUE, 0, FALSE, 0),
        Response("composite", TRUE, TRUE, UrlBoot, TRUE, 2, TRUE, 2),
        Response("composite", TRUE, TRUE, UrlBoot, TRUE, 0, TRUE, 3)}
  \cup {Response("composite", TRUE, TRUE, u, TRUE, i, TRUE, 2) :
          u \in Urls, i \in {0, 1}}

\* What zx::event::create and get_info may do in StartDriver.
Tokens == {"ok", "create_failed", "get_info_failed"}

StartRequest(handles, koid, colocate, fail) ==
  [handles |-> handles, koid |-> koid, colocate |-> colocate, fail |-> fail,
   url |-> UrlPkg]

\* The steps of Start that may fail for reasons outside the runner.
StartFailures ==
  {"none", "host_endpoints", "host_connect", "node_endpoints",
   "driver_endpoints", "host_start_rpc"}

\* The Start requests the component manager may send, given the koids
\* handed out so far; next_koid is a koid the runner never issued.
StartRequests ==
  {StartRequest(hd, 1, FALSE, "none") :
     hd \in {"none", "two", "invalid", "wrong_id", "no_info"}}
  \cup {StartRequest("ok", k, c, f) :
          k \in 1..next_koid, c \in BOOLEAN, f \in StartFailures}

(***************************************************************************)
(* The inputs of the specification Spec: of the inputs that differ only in *)
(* what is answered or logged, one is kept.                                *)
(***************************************************************************)
MainRequests ==
  {Request(TRUE, NameA, <<OfferGood>>, <<PropertyGood>>, <<SymbolGood>>, nv) :
     nv \in BOOLEAN}
  \cup {Request(TRUE, NameB, <<>>, <<>>, <<>>, FALSE),
        Request(TRUE, NameDotted, <<>>, <<>>, <<>>, FALSE)}

MainResponses ==
  {Response("err", FALSE, FALSE, <<>>, FALSE, 0, FALSE, 0),
   Response("driver", TRUE, TRUE, UrlPkg, FALSE, 0, FALSE, 0)}
  \cup {Response("composite", TRUE, TRUE, UrlBoot, TRUE, i, TRUE, 2) :
          i \in {0, 1}}

MainStartRequests ==
  {StartRequest("ok", k, c, "none") : k \in 1..next_koid, c \in BOOLEAN}

(***************************************************************************)
(* compat::Device (src/devices/misc/drivers/compat/device.cc).  A Device   *)
(* is a std::shared_ptr target owned by the children_ list of its parent;  *)
(* parent_ is a raw pointer.  The Device without parent is the one the     *)
(* compat driver was bound to; the Driver object owns it.  g is the state  *)
(* a Device handler runs in: the heap of Devices and the log of the hooks  *)
(* of the DFv1 driver that were called, each with children_.size() at the  *)
(* time of the call.                                                       *)
(***************************************************************************)
\* Device::Device.  unbind and release are HasOp(ops_, ...) of the two hooks;
\* controller is "none" (the client was never bound), "bound" or "closed"
\* (the channel was torn down, the client object is still there).
NewDevice(parent, unbind, release) ==
  [parent |-> parent, children |-> <<>>, unbind |-> unbind,
   release |-> release, controller |-> "none", pending_rebind |-> FALSE,
   vnode_teardown_callback |-> FALSE, alive |-> TRUE]

DeviceHeap == [devices |-> devices, log |-> <<>>]

\* std::list::remove: every element equal to x leaves the list.
RemoveAll(s, x) == LET Keep(y) == y # x IN SelectSeq(s, Keep)

RECURSIVE DestroyDevice(_, _), DestroyChildren(_, _)
\* Device::~Device: the body, and then the members, of which children_
\* lets go of every child; a child has no other owner and is destroyed.
DestroyDevice(g, d) ==
  LET dev == g.devices[d]
      n == Len(dev.children)
      Teardown(g1) ==
        IF dev.vnode_teardown_callback THEN Log(g1, "vnode_teardown", d, n)
        ELSE g1
      Unbound(g1) ==
        IF dev.parent # Nil /\ dev.unbind THEN Log(g1, "unbind", d, n) ELSE g1
      Released(g1) ==
        IF dev.parent # Nil /\ dev.release THEN Log(g1, "release", d, n) ELSE g1
      Members(g1) ==
        DestroyChildren([g1 EXCEPT !.devices[d].alive = FALSE,
                                   !.devices[d].children = <<>>], dev.children)
  IN  Members(Released(Unbound(Teardown(Log(g, "destroy", d, n)))))

DestroyChildren(g, cs) ==
  IF cs = <<>> THEN g
  ELSE DestroyChildren(DestroyDevice(g, Head(cs)), Tail(cs))

\* Device::RemoveChild, called with the last other shared_ptr to the child:
\* when that one goes out of scope the child is destroyed.
RemoveChild(g, p, c) ==
  DestroyDevice([g EXCEPT !.devices[p].children = RemoveAll(@, c)], c)

\* Device::Add.  When AddMetadata fails the new Device is never put into
\* children_ and is destroyed as Add returns.
DeviceAdd(g, p, unbind, release, metadata_ok) ==
  LET d == Len(g.devices) + 1
      made == [g EXCEPT !.devices = Append(@, NewDevice(p, unbind, release))]
  IN  IF ~metadata_ok THEN DestroyDevice(made, d)
      ELSE [made EXCEPT !.devices[p].children = Append(@, d)]

\* Device::CreateNode: the NodeController client is bound unless its
\* endpoints cannot be made; what follows changes no Device.
DeviceCreateNode(g, d, endpoints_ok) ==
  IF ~endpoints_ok THEN g ELSE [g EXCEPT !.devices[d].controller = "bound"]

\* The teardown observer of the NodeController client bound in CreateNode.
\* It holds a weak_ptr: for a Device already destroyed it does nothing.
ControllerTeardown(g, d) ==
  LET dev == g.devices[d]
      closed == [g EXCEPT !.devices[d].controller = "closed"]
  IN  IF ~dev.alive THEN g
      ELSE IF dev.parent # Nil /\ ~dev.pending_rebind
      THEN RemoveChild(closed, dev.parent, d)
      ELSE closed

\* The continuation of RebindToLibname, run once the teardown has finished.
RebindContinuation(g, d, endpoints_ok) ==
  IF ~g.devices[d].alive THEN g
  ELSE [DeviceCreateNode([g EXCEPT !.devices[d].controller = "none"],
                         d, endpoints_ok)
          EXCEPT !.devices[d].pending_rebind = FALSE]

\* Device::Remove; result is what controller_->Remove() returns.
DeviceRemove(g, d, result) ==
  LET dev == g.devices[d]
  IN  IF dev.controller = "none" \/ result = "error"
      THEN IF dev.parent # Nil THEN RemoveChild(g, dev.parent, d) ELSE g
      ELSE g

\* Device::RebindToLibname
RebindToLibname(g, d, result) ==
  IF g.devices[d].controller = "none" THEN g
  ELSE DeviceRemove([g EXCEPT !.devices[d].pending_rebind = TRUE], d, result)

RemoveResults == {"ok", "peer_closed", "error"}

(***************************************************************************)
(* The state machine.  Run...(inputs, mode) is the state a handler ends    *)
(* in when it starts in the current state.                                 *)
(***************************************************************************)
Heap(mode) ==
  [nodes |-> nodes, components |-> components, drivers_ |-> drivers_,
   driver_hosts_ |-> driver_hosts_,
   next_driver_host_id_ |-> next_driver_host_id_,
   driver_args_ |-> driver_args_, next_koid |-> next_koid,
   orphaned_nodes_ |-> orphaned_nodes_, composite_args_ |-> composite_args_,
   match_queue |-> match_queue, log |-> <<>>, ub |-> "none", pins |-> <<>>,
   stale |-> {}, iters |-> <<>>, stop_ok |-> TRUE, mode |-> mode, ret |-> "ZX_OK", it |-> 0,
   made |-> Nil]

\* The memory of a destroyed object holds nothing that a later handler may
\* rely on: once the handler that destroyed it has ended, it is blank.
FreedNode ==
  [NewNode(<<>>, <<>>, <<>>, <<>>, <<>>, <<>>) EXCEPT
     !.removal_in_progress = TRUE, !.driver_binder = FALSE, !.freed = TRUE]

DeadComponent ==
  [node |-> Nil, stop_in_progress |-> FALSE, driver_ref |-> FALSE,
   binding |-> "none", alive |-> FALSE]

\* The state takes the values the handler ended with.
Commit(h) ==
  /\ Len(h.nodes) <= MaxNodes
  /\ Len(h.components) <= MaxDrivers
  /\ nodes' = [n \in DOMAIN h.nodes |->
                 IF h.nodes[n].freed THEN FreedNode ELSE h.nodes[n]]
  /\ components' = [d \in DOMAIN h.components |->
                      IF h.components[d].alive THEN h.components[d]
                      ELSE DeadComponent]
  /\ drivers_' = h.drivers_
  /\ driver_hosts_' = h.driver_hosts_
  /\ next_driver_host_id_' = h.next_driver_host_id_
  /\ driver_args_' = h.driver_args_
  /\ next_koid' = h.next_koid
  /\ orphaned_nodes_' = h.orphaned_nodes_
  /\ composite_args_' = h.composite_args_
  /\ match_queue' = h.match_queue
  /\ ub' = h.ub
  /\ devices' = devices

\* A handler ends as it does in mode "crash"; when undefined behaviour
\* occurs it may as well end as it does in mode "stale".
Outcome(crash, stale) ==
  \/ Commit(crash)
  \/ crash.ub # "none" /\ Commit(stale)

Live(n) == n \in DOMAIN nodes /\ ~nodes[n].freed

Init ==
  /\ nodes = <<NewNode(<<>>, <<"root">>, <<>>, <<>>, <<>>, <<>>)>>
  /\ components = <<>>
  /\ drivers_ = <<>>
  /\ driver_hosts_ = <<>>
  /\ next_driver_host_id_ = 0
  /\ driver_args_ = {}
  /\ next_koid = 1
  /\ orphaned_nodes_ = <<>>
  /\ composite_args_ = <<>>
  /\ match_queue = <<>>
  /\ wait_pending = FALSE
  /\ root_started = FALSE
  /\ ub = "none"
  /\ devices = <<NewDevice(Nil, TRUE, TRUE)>>

\* DriverRunner::StartRootDriver
RunStartRootDriver(url, token, mode) == StartDriver(Heap(mode), 1, url, token)

DoStartRootDriver(urls, tokens) ==
  /\ ub = "none" /\ ~root_started
  /\ \E url \in urls, token \in tokens :
       Outcome(RunStartRootDriver(url, token, "crash"),
               RunStartRootDriver(url, token, "stale"))
  /\ root_started' = TRUE
  /\ UNCHANGED wait_pending

\* DriverRunner::Start, sent by the component manager
RunStart(req, mode) == Start(Heap(mode), req)

DoStart(requests) ==
  /\ ub = "none"
  /\ \E req \in requests :
       Outcome(RunStart(req, "crash"), RunStart(req, "stale"))
  /\ UNCHANGED <<wait_pending, root_started>>

\* Node::AddChild, sent on the fdf::Node channel of a Node
CanAddChild(n) == Live(n) /\ nodes[n].binding = "bound"

RunAddChild(n, req) == AddChild(Heap("crash"), n, req)

DoAddChild(requests) ==
  /\ ub = "none"
  /\ \E n \in DOMAIN nodes, req \in requests :
       CanAddChild(n) /\ Commit(RunAddChild(n, req))
  /\ UNCHANGED <<wait_pending, root_started>>

\* Node::Remove, sent on the fdf::NodeController channel of a Node
CanRemove(n) == Live(n) /\ nodes[n].controller_ref

RunRemove(n, mode) == Remove(Heap(mode), n)

DoRemove ==
  /\ ub = "none"
  /\ \E n \in DOMAIN nodes :
       CanRemove(n) /\ Outcome(RunRemove(n, "crash"), RunRemove(n, "stale"))
  /\ UNCHANGED <<wait_pending, root_started>>

\* The fdf::Node binding of a Node is torn down: its peer closed, or the
\* Unbind that Remove asked for completes.
CanNodeUnbound(n) == Live(n) /\ nodes[n].binding # "none"

RunNodeUnbound(n, mode) == NodeUnbound(Heap(mode), n)

DoNodeUnbound ==
  /\ ub = "none"
  /\ \E n \in DOMAIN nodes :
       CanNodeUnbound(n)
       /\ Outcome(RunNodeUnbound(n, "crash"), RunNodeUnbound(n, "stale"))
  /\ UNCHANGED <<wait_pending, root_started>>

\* The driver index answers the oldest MatchDriver request.
RunMatchResponse(resp, token, mode) ==
  MatchCallback([Heap(mode) EXCEPT !.match_queue = Tail(@)],
                Head(match_queue), resp, token)

DoMatchResponse(responses, tokens) ==
  /\ ub = "none" /\ match_queue # <<>>
  /\ \E resp \in responses, token \in tokens :
       Outcome(RunMatchResponse(resp, token, "crash"),
               RunMatchResponse(resp, token, "stale"))
  /\ UNCHANGED <<wait_pending, root_started>>

\* DriverRunner::ScheduleBaseDriversBinding
DoScheduleBaseDriversBinding ==
  /\ ub = "none" /\ ~wait_pending
  /\ wait_pending' = TRUE
  /\ Commit(Heap("crash"))
  /\ UNCHANGED root_started

\* The driver index answers WaitForBaseDrivers.
RunBaseDriversCallback(ok, mode) == BaseDriversCallback(Heap(mode), ok)

DoBaseDriversCallback ==
  /\ ub = "none" /\ wait_pending
  /\ wait_pending' = FALSE
  /\ \E ok \in BOOLEAN :
       Outcome(RunBaseDriversCallback(ok, "crash"),
               RunBaseDriversCallback(ok, "stale"))
  /\ UNCHANGED root_started

\* DriverComponent::on_fidl_error: the driver's channel closed.
CanDriverChannelClosed(d) ==
  d \in DOMAIN components /\ components[d].alive /\ components[d].driver_ref

RunDriverChannelClosed(d) == StopComponent(Heap("crash"), d)

DoDriverChannelClosed ==
  /\ ub = "none"
  /\ \E d \in DOMAIN components :
       CanDriverChannelClosed(d) /\ Commit(RunDriverChannelClosed(d))
  /\ UNCHANGED <<wait_pending, root_started>>

\* DriverComponent::Stop and Kill, sent by the component manager
CanComponentStop(d) ==
  d \in DOMAIN components /\ components[d].alive
  /\ components[d].binding = "bound"

RunComponentStop(d, mode) == RequestDriverStop(Heap(mode), d)

DoComponentStop ==
  /\ ub = "none"
  /\ \E d \in DOMAIN components :
       CanComponentStop(d)
       /\ Outcome(RunComponentStop(d, "crash"), RunComponentStop(d, "stale"))
  /\ UNCHANGED <<wait_pending, root_started>>

\* The ComponentController binding of a driver is torn down: its peer
\* closed, or the Close of StopComponent completes.
CanComponentUnbound(d) == d \in DOMAIN components /\ components[d].alive

RunComponentUnbound(d, mode) == DestroyDriverComponent(Heap(mode), d)

DoComponentUnbound ==
  /\ ub = "none"
  /\ \E d \in DOMAIN components :
       CanComponentUnbound(d)
       /\ Outcome(RunComponentUnbound(d, "crash"),
                  RunComponentUnbound(d, "stale"))
  /\ UNCHANGED <<wait_pending, root_started>>

\* The channel to a driver host is torn down.
DoDriverHostTeardown ==
  /\ ub = "none"
  /\ \E host \in Range(driver_hosts_) :
       Commit(DriverHostTeardown(Heap("crash"), host))
  /\ UNCHANGED <<wait_pending, root_started>>

Next ==
  \/ DoStartRootDriver({UrlPkg}, {"ok"})
  \/ DoStart(MainStartRequests)
  \/ DoAddChild(MainRequests)
  \/ DoRemove
  \/ DoNodeUnbound
  \/ DoMatchResponse(MainResponses, {"ok"})
  \/ DoDriverChannelClosed
  \/ DoComponentStop
  \/ DoComponentUnbound

Spec == Init /\ [][Next]_vars

(***************************************************************************)
(* The specification with the base-drivers cycle: the runner may ask the   *)
(* driver index to signal base drivers, and the index may answer.          *)
(***************************************************************************)
NextRebind ==
  \/ DoStartRootDriver({UrlPkg}, {"ok"})
  \/ DoStart(MainStartRequests)
  \/ DoAddChild(MainRequests)
  \/ DoRemove
  \/ DoNodeUnbound
  \/ DoMatchResponse(MainResponses, {"ok"})
  \/ DoScheduleBaseDriversBinding
  \/ DoBaseDriversCallback
  \/ DoDriverChannelClosed
  \/ DoComponentStop
  \/ DoComponentUnbound

SpecRebind == Init /\ [][NextRebind]_vars

(***************************************************************************)
(* The specification with progress.  The dispatcher runs every teardown    *)
(* hook that is due: a binding that was unbound or closed by the runner    *)
(* has its hook run.  A driver that was asked to stop closes its channel.  *)
(* Nothing else is promised: a client need not call, the driver index and *)
(* the component manager need not answer.                                  *)
(***************************************************************************)
\* The channel of a driver that was asked to stop closes.
StoppedDriverCloses(d) ==
  /\ ub = "none"
  /\ CanDriverChannelClosed(d) /\ components[d].stop_in_progress
  /\ Commit(RunDriverChannelClosed(d))
  /\ UNCHANGED <<wait_pending, root_started>>

\* The teardown hook of the ComponentController binding of d is due: the
\* binding was closed and the hook has not run.
ComponentTeardownDue(d) ==
  ub = "none" /\ CanComponentUnbound(d) /\ components[d].binding = "closing"

\* The teardown hook of the fdf::Node binding of n is due.
NodeTeardownDue(n) ==
  ub = "none" /\ CanNodeUnbound(n) /\ nodes[n].binding = "unbinding"

\* The inputs of the specification with progress: two names, a child with
\* and without a node server, a plain and a composite driver, a host of its
\* own for every driver.
ProgressRequests ==
  {Request(TRUE, NameA, <<>>, <<>>, <<>>, nv) : nv \in BOOLEAN}
  \cup {Request(TRUE, NameB, <<>>, <<>>, <<>>, FALSE)}

ProgressResponses ==
  {Response("driver", TRUE, TRUE, UrlPkg, FALSE, 0, FALSE, 0)}
  \cup {Response("composite", TRUE, TRUE, UrlBoot, TRUE, i, TRUE, 2) :
          i \in {0, 1}}

ProgressStartRequests ==
  {StartRequest("ok", k, FALSE, "none") : k \in 1..next_koid}

NextProgress ==
  \/ DoStartRootDriver({UrlPkg}, {"ok"})
  \/ DoStart(ProgressStartRequests)
  \/ DoAddChild(ProgressRequests)
  \/ DoRemove
  \/ DoNodeUnbound
  \/ DoMatchResponse(ProgressResponses, {"ok"})
  \/ DoDriverChannelClosed
  \/ DoComponentStop
  \/ DoComponentUnbound

\* A hook that is due is enabled until it runs, and is not due once it has
\* run, so that weak fairness of the hook is: it is not due forever.
Progress ==
  /\ \A d \in 1..MaxDrivers : WF_vars(StoppedDriverCloses(d))
  /\ \A d \in 1..MaxDrivers : []<>~ComponentTeardownDue(d)
  /\ \A n \in 1..MaxNodes : []<>~NodeTeardownDue(n)

SpecProgress == Init /\ [][NextProgress]_vars /\ Progress

(***************************************************************************)
(* The specification with driver hosts that go away: the channel to a      *)
(* driver host may close at any time, and its teardown observer then       *)
(* erases the DriverHostComponent from driver_hosts_.                      *)
(***************************************************************************)
NextHosts ==
  \/ DoStartRootDriver({UrlPkg}, {"ok"})
  \/ DoStart(MainStartRequests)
  \/ DoAddChild(ProgressRequests)
  \/ DoRemove
  \/ DoNodeUnbound
  \/ DoMatchResponse(ProgressResponses, {"ok"})
  \/ DoDriverChannelClosed
  \/ DoComponentStop
  \/ DoComponentUnbound
  \/ DoDriverHostTeardown

SpecHosts == Init /\ [][NextHosts]_vars

(***************************************************************************)
(* The compat Devices of one compat driver.  What the driver, the driver   *)
(* manager and the dispatcher do to them; the DriverRunner is not part of  *)
(* it.                                                                     *)
(***************************************************************************)
DeadDevice == [NewDevice(Nil, FALSE, FALSE) EXCEPT !.alive = FALSE]

RunnerUnchanged ==
  UNCHANGED <<nodes, components, drivers_, driver_hosts_,
              next_driver_host_id_, driver_args_, next_koid, orphaned_nodes_,
              composite_args_, match_queue, wait_pending, root_started, ub>>

\* The storage of a destroyed Device holds nothing more.
CommitDevices(g) ==
  /\ Len(g.devices) <= MaxDevices
  /\ devices' = [d \in DOMAIN g.devices |->
                   IF g.devices[d].alive THEN g.devices[d] ELSE DeadDevice]
  /\ RunnerUnchanged

Alive(d) == d \in DOMAIN devices /\ devices[d].alive

\* device_add of the DFv1 driver: Device::Add on a Device it holds.
DoDeviceAdd ==
  \E p \in DOMAIN devices, unbind \in BOOLEAN, release \in BOOLEAN,
     metadata_ok \in BOOLEAN :
    /\ Alive(p)
    /\ CommitDevices(DeviceAdd(DeviceHeap, p, unbind, release, metadata_ok))

\* CreateNode is called on a Device that Add made, once.
DoDeviceCreateNode ==
  \E d \in DOMAIN devices, endpoints_ok \in BOOLEAN :
    /\ Alive(d)
    /\ devices[d].parent # Nil
    /\ devices[d].controller = "none"
    /\ ~devices[d].pending_rebind
    /\ CommitDevices(DeviceCreateNode(DeviceHeap, d, endpoints_ok))

\* The NodeController channel of a Device closes.
DoControllerTeardown ==
  \E d \in DOMAIN devices :
    /\ Alive(d)
    /\ devices[d].controller = "bound"
    /\ CommitDevices(ControllerTeardown(DeviceHeap, d))

DoRebindContinuation ==
  \E d \in DOMAIN devices, endpoints_ok \in BOOLEAN :
    /\ Alive(d)
    /\ devices[d].pending_rebind
    /\ devices[d].controller = "closed"
    /\ CommitDevices(RebindContinuation(DeviceHeap, d, endpoints_ok))

DoDeviceRemove ==
  \E d \in DOMAIN devices, result \in RemoveResults :
    /\ Alive(d)
    /\ CommitDevices(DeviceRemove(DeviceHeap, d, result))

DoRebindToLibname ==
  \E d \in DOMAIN devices, result \in RemoveResults :
    /\ Alive(d)
    /\ ~devices[d].pending_rebind
    /\ CommitDevices(RebindToLibname(DeviceHeap, d, result))

\* The driver is asked to shut down and frees its Devices: the Device
\* without parent is destroyed.
DoDriverShutdown ==
  /\ Alive(1)
  /\ CommitDevices(DestroyDevice(DeviceHeap, 1))

NextDevices ==
  \/ DoDeviceAdd
  \/ DoDeviceCreateNode
  \/ DoControllerTeardown
  \/ DoRebindContinuation
  \/ DoDeviceRemove
  \/ DoRebindToLibname
  \/ DoDriverShutdown

SpecDevices == Init /\ [][NextDevices]_vars

(***************************************************************************)
(* Properties.  A property of a handler is stated over every state the     *)
(* system reaches: whatever call of the handler is possible there, what    *)
(* the handler does in it is as claimed.                                   *)
(***************************************************************************)
\* The handler that ended in h changed no Node and no table of the runner.
NothingChanged(h) ==
  /\ h.nodes = nodes
  /\ h.components = components
  /\ h.drivers_ = drivers_
  /\ h.driver_hosts_ = driver_hosts_
  /\ h.next_driver_host_id_ = next_driver_host_id_
  /\ h.driver_args_ = driver_args_
  /\ h.next_koid = next_koid
  /\ h.orphaned_nodes_ = orphaned_nodes_
  /\ h.composite_args_ = composite_args_
  /\ h.match_queue = match_queue
  /\ h.log = <<>>

\* The names of the children of p, in the order of its child list.
ChildNames(ns, p) == [i \in DOMAIN ns[p].children |-> ns[ns[p].children[i]].name]

\* C1: in every reachable state no Node has two children with the same
\* name: the entries of every child list have pairwise different names.
C1_SiblingNamesUnique ==
  \A p \in DOMAIN nodes :
     \A i, j \in DOMAIN nodes[p].children :
        i # j => ChildNames(nodes, p)[i] # ChildNames(nodes, p)[j]

\* A Node with two children and a Node with a composite child exist, and
\* an AddChild is refused for its name.
C1_Witness ==
  /\ \E p \in DOMAIN nodes : Len(nodes[p].children) >= 2
  /\ \E p \in DOMAIN nodes : Contains(ChildNames(nodes, p), NameComposite)
  /\ \E p \in DOMAIN nodes, req \in AddChildRequests :
        CanAddChild(p) /\ RunAddChild(p, req).ret = "kNameAlreadyExists"

\* C2 as stated: an AddChild whose name is the name of a child in the list
\* of the Node replies NameAlreadyExists and changes nothing.
C2_DuplicateAlwaysNameAlreadyExists ==
  \A n \in DOMAIN nodes, req \in AddChildRequests :
     (CanAddChild(n) /\ req.has_name
      /\ Contains(ChildNames(nodes, n), req.name))
     => /\ RunAddChild(n, req).ret = "kNameAlreadyExists"
        /\ NothingChanged(RunAddChild(n, req))

\* C2, amended: an AddChild whose name is the name of a child in the list
\* of the Node changes nothing (the list, the match requests in flight and
\* every table stay as they were); it replies NameAlreadyExists when the
\* removal of the Node has not begun, and NodeRemoved when it has.
C2_DuplicateRefused ==
  \A n \in DOMAIN nodes, req \in AddChildRequests :
     (CanAddChild(n) /\ req.has_name
      /\ Contains(ChildNames(nodes, n), req.name))
     => /\ RunAddChild(n, req).ret =
             (IF nodes[n].removal_in_progress THEN "kNodeRemoved"
              ELSE "kNameAlreadyExists")
        /\ NothingChanged(RunAddChild(n, req))
        /\ Count(ChildNames(RunAddChild(n, req).nodes, n), req.name) = 1

\* An AddChild with the name of a child is refused with NameAlreadyExists
\* on a Node that has children of two names.
C2_Witness ==
  \E n \in DOMAIN nodes, req \in AddChildRequests :
     /\ CanAddChild(n) /\ ~nodes[n].removal_in_progress
     /\ Len(nodes[n].children) >= 2
     /\ RunAddChild(n, req).ret = "kNameAlreadyExists"

\* The handlers that call Node::Remove, each ended in either mode, and a
\* second Remove on the Node after each direct call.
RemoveRuns ==
  {RunRemove(n, m) : n \in {x \in DOMAIN nodes : Live(x)}, m \in UBModes}
  \cup {Remove(RunRemove(n, m), n) :
          n \in {x \in DOMAIN nodes : Live(x)}, m \in UBModes}
  \cup {RunNodeUnbound(n, m) :
          n \in {x \in DOMAIN nodes : CanNodeUnbound(x)}, m \in UBModes}
  \cup {RunComponentStop(d, m) :
          d \in {x \in DOMAIN components : CanComponentStop(x)}, m \in UBModes}
  \cup {RunComponentUnbound(d, m) :
          d \in {x \in DOMAIN components : CanComponentUnbound(x)},
          m \in UBModes}

\* The events e of the log of h, as positions.
Events(h, e) == {i \in DOMAIN h.log : h.log[i].ev = e}

\* C3: whatever calls of Remove a handler makes on a Node (the external
\* call, re-entrant calls from cascades, a second call after the first has
\* completed), the Node is erased from the child list of each parent at
\* most once, each parent's cascade is triggered for it at most once, and
\* no erase is tried on a list that does not contain the Node.
C3_RemoveIdempotent ==
  \A h \in RemoveRuns :
     /\ Events(h, "EraseAbsent") = {}
     /\ \A e \in {"Erase", "Cascade"} :
          \A i, j \in Events(h, e) : h.log[i] = h.log[j] => i = j

\* A Node whose removal has completed (it was erased from its parent and
\* its parent list is cleared) is still alive, and Remove is called on it
\* once more when its fdf::Node binding is torn down.
C3_Witness ==
  \E n \in DOMAIN nodes :
     /\ n # 1 /\ Live(n) /\ nodes[n].removal_in_progress
     /\ nodes[n].parents = <<>>
     /\ CanNodeUnbound(n)
     /\ Events(RunRemove(n, "crash"), "Erase") = {}

\* Event e is in the log of h before position j.
Before(h, e, j) == \E i \in 1..(j - 1) : h.log[i] = e

\* C4: a Node enters the unlink phase of Remove (and is erased from the
\* child lists of its parents) only when its own child list is empty, and
\* by the time a Node is erased from a list every child it had when the
\* handler began has been erased from its list.
C4_BottomUp ==
  \A h \in RemoveRuns :
     /\ \A i \in Events(h, "Unlink") : h.log[i].b = 0
     /\ \A j \in Events(h, "Erase") :
          \A c \in Range(nodes[h.log[j].b].children) :
             Before(h, Ev("Erase", h.log[j].b, c), j)

\* Remove is called on a Node that has a parent and one child; in the same
\* handler the child is erased from the Node and the Node from its parent.
C4_Witness ==
  \E p \in DOMAIN nodes :
     /\ Live(p) /\ Len(nodes[p].children) = 1 /\ nodes[p].parents # <<>>
     /\ RunRemove(p, "crash").ub = "none"
     /\ \E j \in Events(RunRemove(p, "crash"), "Erase") :
          RunRemove(p, "crash").log[j].b = p

\* The composite Nodes: those with more than one parent.
Composites == {k \in DOMAIN nodes : Live(k) /\ Len(nodes[k].parents) > 1}

\* In h the removal of x has completed: x is in no child list, its parent
\* list is cleared and nothing but a binding in teardown holds it.
Removed(h, x) ==
  /\ h.nodes[x].removal_in_progress
  /\ h.nodes[x].parents = <<>>
  /\ \A y \in DOMAIN h.nodes : ~Contains(h.nodes[y].children, x)
  /\ h.nodes[x].freed \/ h.nodes[x].binding = "unbinding"

\* In h the composite k and all its parents have been removed.
RemovedWithParents(h, k) ==
  /\ Removed(h, k)
  /\ \A q \in Range(nodes[k].parents) : Removed(h, q)

\* C5: a composite Node is removed together with all its parents.  When it
\* enters the unlink phase it is erased from the list of every parent and
\* Remove is called on every parent.  Remove on one parent of a childless
\* composite removes the composite and all its parents at once when the
\* composite has no driver, and otherwise asks the driver to stop; a
\* composite one of whose parents is being removed is itself being removed
\* and waits only for its children or, those gone, for its driver which
\* has been asked to stop; when the driver of a childless composite is
\* destroyed the composite and all its parents are removed.
C5_CompositeRemovedWithParents ==
  \A k \in Composites :
     /\ \A h \in RemoveRuns :
          Events(h, "Unlink") \cap {i \in DOMAIN h.log : h.log[i].a = k} # {}
          => \A p \in Range(nodes[k].parents) :
                /\ Ev("Erase", p, k) \in Range(h.log)
                /\ Ev("Cascade", p, k) \in Range(h.log)
     /\ \A p \in Range(nodes[k].parents), m \in UBModes :
          nodes[k].children = <<>>
          => IF nodes[k].driver_component = Nil
             THEN RemovedWithParents(RunRemove(p, m), k)
             ELSE RunRemove(p, m).components[nodes[k].driver_component]
                    .stop_in_progress
     /\ (\E p \in Range(nodes[k].parents) : nodes[p].removal_in_progress)
        => /\ nodes[k].removal_in_progress
           /\ nodes[k].driver_component # Nil \/ nodes[k].children # <<>>
           /\ (nodes[k].driver_component # Nil /\ nodes[k].children = <<>>)
              => components[nodes[k].driver_component].stop_in_progress
     /\ \A d \in DOMAIN components, m \in UBModes :
          (CanComponentUnbound(d) /\ components[d].node = k
           /\ nodes[k].children = <<>>)
          => RemovedWithParents(RunComponentUnbound(d, m), k)

\* Remove has been called on a parent of a composite Node that has a
\* driver: parent and composite are being removed, the driver has been
\* asked to stop, and the destruction of the driver component is pending.
C5_Witness ==
  \E k \in Composites, d \in DOMAIN components :
     /\ nodes[k].driver_component = d /\ CanComponentUnbound(d)
     /\ components[d].stop_in_progress
     /\ nodes[k].removal_in_progress
     /\ \E p \in Range(nodes[k].parents) : nodes[p].removal_in_progress
     /\ RemovedWithParents(RunComponentUnbound(d, "crash"), k)

\* C6 as stated: when the Node of a pending start token has been freed,
\* Start on that token uses no freed Node and changes no Node and no
\* DriverComponent; equivalently, no entry of driver_args_ names a freed
\* Node.
C6_StartIgnoresRemovedNode ==
  /\ \A t \in driver_args_ : ~nodes[t[2]].freed
  /\ \A t \in driver_args_, c \in BOOLEAN, m \in UBModes :
        nodes[t[2]].freed
        => /\ RunStart(StartRequest("ok", t[1], c, "none"), m).ub
                # "use_after_free"
           /\ RunStart(StartRequest("ok", t[1], c, "none"), m).nodes = nodes
           /\ RunStart(StartRequest("ok", t[1], c, "none"), m).components
                = components

\* C7: when the Node of a match request in flight has been freed, the
\* callback of the response, whatever the response is, changes no Node and
\* no table: nothing is orphaned, no composite slot is written, no driver
\* is started and OnBind is not called; the request is gone, that is all.
C7_MatchCallbackIgnoresFreedNode ==
  \A resp \in MatchResponses, token \in Tokens, m \in UBModes :
     (match_queue # <<>> /\ nodes[Head(match_queue)].freed)
     => /\ NothingChanged(
             [RunMatchResponse(resp, token, m) EXCEPT
                !.match_queue = match_queue, !.log = <<>>])
        /\ RunMatchResponse(resp, token, m).match_queue = Tail(match_queue)
        /\ RunMatchResponse(resp, token, m).log
             = <<Ev("NodeFreed", Head(match_queue), 0)>>
        /\ RunMatchResponse(resp, token, m).ub = "none"

\* The oldest match request in flight is for a Node that has been freed.
C7_Witness ==
  /\ match_queue # <<>> /\ nodes[Head(match_queue)].freed
  /\ orphaned_nodes_ = <<>>
  /\ \E resp \in MatchResponses :
        RunMatchResponse(resp, "ok", "crash").log
          = <<Ev("NodeFreed", Head(match_queue), 0)>>

\* The composite answers of the driver index.
CompositeResponses == {r \in MatchResponses : r.kind = "composite"}

\* The oldest match request in flight is for a Node that is alive.
ContributorWaits == match_queue # <<>> /\ Live(Head(match_queue))

\* CreateCompositeNode for the Node of the oldest match request.
RunCreateCompositeNode(resp) ==
  CreateCompositeNode(Heap("crash"), Head(match_queue), resp)

\* A slot that holds no live Node: empty, or its Node has been freed.
Unresolved(w) == w = Nil \/ nodes[w].freed

\* The pending sets of the url of resp whose slot node_index is free.
FreeSets(resp) ==
  {i \in DOMAIN composite_args_ :
     /\ composite_args_[i].url = resp.url
     /\ Unresolved(composite_args_[i].nodes[resp.node_index + 1])}

\* The pending set a contributor with resp goes to: the first one whose
\* slot is free, 0 when there is none.
FirstFreeSet(resp) ==
  IF FreeSets(resp) = {} THEN 0
  ELSE CHOOSE i \in FreeSets(resp) : \A j \in FreeSets(resp) : i <= j

\* The slots of that set once the contributor is stored.
StoredSlots(resp) ==
  [(IF FirstFreeSet(resp) = 0 THEN [i \in 1..resp.num_nodes |-> Nil]
    ELSE composite_args_[FirstFreeSet(resp)].nodes)
     EXCEPT ![resp.node_index + 1] = Head(match_queue)]

\* C8: a composite Node is created only when, with the contributor stored,
\* every slot of the chosen pending set holds a live Node.  When a slot is
\* still unresolved the result is ZX_ERR_NEXT, the contributor is stored in
\* its slot, the set stays in composite_args_, the contributor is not
\* orphaned, no Node is created and no driver is started.
C8_CompositeOnlyWhenAllSlotsLive ==
  \A resp \in CompositeResponses, token \in Tokens :
     (ContributorWaits
      /\ RunCreateCompositeNode(resp).ret \in {"ZX_OK", "ZX_ERR_NEXT"})
     => /\ RunCreateCompositeNode(resp).ret = "ZX_ERR_NEXT"
           <=> \E i \in DOMAIN StoredSlots(resp) :
                  Unresolved(StoredSlots(resp)[i])
        /\ Events(RunMatchResponse(resp, token, "crash"), "Composite") # {}
           => /\ RunCreateCompositeNode(resp).ret = "ZX_OK"
              /\ Len(StoredSlots(resp)) = resp.num_nodes
              /\ \A i \in DOMAIN StoredSlots(resp) :
                    ~Unresolved(StoredSlots(resp)[i])
        /\ RunCreateCompositeNode(resp).ret = "ZX_ERR_NEXT"
           => /\ RunCreateCompositeNode(resp).composite_args_
                   [RunCreateCompositeNode(resp).it].nodes
                   = StoredSlots(resp)
              /\ RunMatchResponse(resp, token, "crash").composite_args_
                   = RunCreateCompositeNode(resp).composite_args_
              /\ NothingChanged(
                   [RunMatchResponse(resp, token, "crash") EXCEPT
                      !.composite_args_ = composite_args_,
                      !.match_queue = match_queue])

\* A contributor waits whose arrival leaves a slot unresolved, and one
\* whose arrival would complete a pending set.
C8_Witness ==
  /\ ContributorWaits
  /\ \E resp \in CompositeResponses :
        /\ RunCreateCompositeNode(resp).ret = "ZX_ERR_NEXT"
        /\ FirstFreeSet(resp) # 0
  /\ \E resp \in CompositeResponses :
        RunCreateCompositeNode(resp).ret = "ZX_OK"

\* C9: when the contributor fills the last unresolved slot, the pending set
\* leaves composite_args_ and exactly one Node is created: its name is
\* "composite", its parent list is the slots of the set in the order of the
\* slot index, and it is appended once to the child list of each of them;
\* nothing else changes in any Node.
C9_CompositeFromSlots ==
  \A resp \in CompositeResponses :
     (ContributorWaits /\ RunCreateCompositeNode(resp).ret = "ZX_OK")
     => /\ RunCreateCompositeNode(resp).made = Len(nodes) + 1
        /\ Len(RunCreateCompositeNode(resp).nodes) = Len(nodes) + 1
        /\ RunCreateCompositeNode(resp).nodes[Len(nodes) + 1].name
             = <<"composite">>
        /\ RunCreateCompositeNode(resp).nodes[Len(nodes) + 1].parents
             = StoredSlots(resp)
        /\ \A p \in DOMAIN nodes :
              RunCreateCompositeNode(resp).nodes[p] =
                [nodes[p] EXCEPT !.children =
                   IF p \in Range(StoredSlots(resp))
                   THEN Append(@, Len(nodes) + 1) ELSE @]
        /\ \A p \in Range(StoredSlots(resp)) :
              Count(RunCreateCompositeNode(resp).nodes[p].children,
                    Len(nodes) + 1) = 1
        /\ RunCreateCompositeNode(resp).composite_args_ =
             (IF FirstFreeSet(resp) = 0 THEN composite_args_
              ELSE RemoveAt(composite_args_, FirstFreeSet(resp)))

\* The contributor of slot 0 arrives after the one of slot 1 and completes
\* the set: the parents are in slot order, not in the order of arrival.
C9_Witness ==
  \E resp \in CompositeResponses :
     /\ ContributorWaits /\ RunCreateCompositeNode(resp).ret = "ZX_OK"
     /\ resp.node_index = 0
     /\ FirstFreeSet(resp) # 0
     /\ RunCreateCompositeNode(resp).nodes[Len(nodes) + 1].parents[1]
          = Head(match_queue)
     /\ RunCreateCompositeNode(resp).nodes[Len(nodes) + 1].parents[2]
          < Head(match_queue)

\* The pending sets of the url of resp.
SetsOfUrl(resp) ==
  {i \in DOMAIN composite_args_ : composite_args_[i].url = resp.url}

\* C10: a slot whose Node has been removed is free again.  A contributor
\* for the url and index of such a slot is stored in that slot of the first
\* such set: no set is added and every other slot and every other set keep
\* their content.  When the slot of the index holds a live Node in every
\* pending set of the url, a new set is added after the others and the
\* contributor is stored in it.
C10_FreedSlotReused ==
  \A resp \in CompositeResponses :
     (ContributorWaits
      /\ RunCreateCompositeNode(resp).ret \in {"ZX_OK", "ZX_ERR_NEXT"})
     => /\ FirstFreeSet(resp) # 0
           => /\ RunCreateCompositeNode(resp).it = FirstFreeSet(resp)
              /\ RunCreateCompositeNode(resp).ret = "ZX_ERR_NEXT"
                 => RunCreateCompositeNode(resp).composite_args_ =
                      [composite_args_ EXCEPT
                         ![FirstFreeSet(resp)].nodes[resp.node_index + 1] =
                            Head(match_queue)]
              /\ RunCreateCompositeNode(resp).ret = "ZX_OK"
                 => RunCreateCompositeNode(resp).composite_args_ =
                      RemoveAt(composite_args_, FirstFreeSet(resp))
        /\ FirstFreeSet(resp) = 0
           => /\ RunCreateCompositeNode(resp).it = Len(composite_args_) + 1
              /\ RunCreateCompositeNode(resp).ret = "ZX_ERR_NEXT"
                 => RunCreateCompositeNode(resp).composite_args_ =
                      Append(composite_args_,
                             [url |-> resp.url, nodes |-> StoredSlots(resp)])

\* Two pending sets of one url coexist; the Node in a slot of the first has
\* been freed, the same slot of the second holds a live Node, and a
\* contributor for that slot waits.
C10_Witness ==
  \E resp \in CompositeResponses :
     /\ ContributorWaits
     /\ RunCreateCompositeNode(resp).ret = "ZX_ERR_NEXT"
     /\ Cardinality(SetsOfUrl(resp)) >= 2
     /\ FirstFreeSet(resp) # 0
     /\ composite_args_[FirstFreeSet(resp)].nodes[resp.node_index + 1] # Nil
     /\ \E i \in SetsOfUrl(resp) : i \notin FreeSets(resp)

\* The answers of the driver index that name no driver to start: a failed
\* transport, an error, a result that is neither a driver nor a composite
\* driver, and a result without driver info or without a URL.
FailedMatches ==
  {r \in MatchResponses :
     r.kind \in {"transport_error", "err", "neither"} \/ ~r.has_url}

\* C11: when the match request of a live Node gets an answer that names no
\* driver to start, the Node is appended to orphaned_nodes_ and that is all
\* the callback does: no StartDriver (no token is made, no component is
\* created), no entry of driver_args_, no composite slot, no Node changes.
C11_FailedMatchOrphans ==
  \A resp \in FailedMatches, token \in Tokens, m \in UBModes :
     ContributorWaits
     => LET Orphans(h) ==
              /\ h.orphaned_nodes_ = Append(orphaned_nodes_, Head(match_queue))
              /\ h.log = <<Ev("Orphaned", Head(match_queue), 0)>>
              /\ h.ub = "none"
              /\ h.match_queue = Tail(match_queue)
              /\ NothingChanged([h EXCEPT !.orphaned_nodes_ = orphaned_nodes_,
                                          !.match_queue = match_queue,
                                          !.log = <<>>])
        IN  Orphans(RunMatchResponse(resp, token, m))

\* A Node was orphaned by an answer that named no driver, and the match
\* request of another live Node is in flight.
C11_Witness ==
  /\ ContributorWaits
  /\ orphaned_nodes_ # <<>>
  /\ \A i \in DOMAIN orphaned_nodes_ : Live(orphaned_nodes_[i])
  /\ ~Contains(orphaned_nodes_, Head(match_queue))
  /\ driver_args_ = {}

\* The answers that name a driver, normal or composite, with its URL.
SuccessfulMatches == MatchResponses \ FailedMatches

\* The composite arguments of resp are refused for the waiting Node.
ValidationFails(resp) ==
  /\ resp.kind = "composite"
  /\ RunCreateCompositeNode(resp).ret = "ZX_ERR_INVALID_ARGS"

\* StartDriver is reached for resp and fails on its token.
StartDriverFails(resp, token) ==
  /\ token # "ok"
  /\ resp.kind = "driver" \/ RunCreateCompositeNode(resp).ret = "ZX_OK"

\* The Node StartDriver is called for: the composite Node made from the
\* pending set when resp completes one, else the Node of the request.
TargetNode(resp) ==
  IF resp.kind = "composite" /\ RunCreateCompositeNode(resp).ret = "ZX_OK"
  THEN Len(nodes) + 1 ELSE Head(match_queue)

\* C12 as stated: whenever a step after a successful match fails, the Node
\* on which Bind was called is appended to orphaned_nodes_.
C12_FailureOrphansBoundNode ==
  \A resp \in SuccessfulMatches, token \in Tokens, m \in UBModes :
     (ContributorWaits
      /\ (ValidationFails(resp) \/ StartDriverFails(resp, token)))
     => RunMatchResponse(resp, token, m).orphaned_nodes_
          = Append(orphaned_nodes_, Head(match_queue))

\* C12, amended: whenever a step after a successful match fails, the Node
\* that was to get the driver is appended to orphaned_nodes_: the Node on
\* which Bind was called when the composite arguments are refused or
\* StartDriver fails for a normal match, the new composite Node when
\* StartDriver fails for a composite match.  No start token is recorded,
\* and the AddChild that issued the match request has replied success
\* before any answer arrives.
C12_FailureOrphansTargetNode ==
  /\ \A resp \in SuccessfulMatches, token \in Tokens, m \in UBModes :
        (ContributorWaits
         /\ (ValidationFails(resp) \/ StartDriverFails(resp, token)))
        => LET Orphans(h) ==
                 /\ h.orphaned_nodes_
                      = Append(orphaned_nodes_, TargetNode(resp))
                 /\ h.driver_args_ = driver_args_
                 /\ h.ub = "none"
           IN  Orphans(RunMatchResponse(resp, token, m))
  /\ \A p \in DOMAIN nodes, req \in AddChildRequests :
        (CanAddChild(p) /\ RunAddChild(p, req).match_queue # match_queue)
        => RunAddChild(p, req).ret = "ok"

\* The Node whose match request is in flight would complete a pending set,
\* and StartDriver for the composite Node fails: the composite Node is
\* orphaned.  For another answer the composite arguments are refused.
C12_Witness ==
  /\ ContributorWaits
  /\ \E resp \in SuccessfulMatches :
        /\ RunCreateCompositeNode(resp).ret = "ZX_OK"
        /\ RunMatchResponse(resp, "create_failed", "crash").orphaned_nodes_
             = Append(orphaned_nodes_, Len(nodes) + 1)
  /\ \E resp \in SuccessfulMatches : ValidationFails(resp)
  /\ \E p \in DOMAIN nodes, req \in AddChildRequests :
        CanAddChild(p) /\ RunAddChild(p, req).match_queue # match_queue

RECURSIVE LiveOnly(_)
\* The entries of a sequence of weak references whose Node is alive.
LiveOnly(weak) ==
  IF weak = <<>> THEN <<>>
  ELSE IF Live(Head(weak)) THEN <<Head(weak)>> \o LiveOnly(Tail(weak))
  ELSE LiveOnly(Tail(weak))

\* C13: when WaitForBaseDrivers is answered with success, orphaned_nodes_
\* is emptied, every entry of the old set whose Node is alive gets one new
\* match request, in the order of the set, and the expired entries get
\* none; nothing else changes.  A Node whose new request is answered with
\* no driver is appended to orphaned_nodes_ again.  When the answer is a
\* failure nothing changes and no match request is issued.
C13_RebindOrphans ==
  /\ \A m \in UBModes :
        LET Rebound(h) ==
              /\ h.ub = "none"
              /\ h.orphaned_nodes_ = <<>>
              /\ h.match_queue = match_queue \o LiveOnly(orphaned_nodes_)
              /\ Cardinality(Events(h, "MatchDriver"))
                   = Len(LiveOnly(orphaned_nodes_))
              /\ NothingChanged([h EXCEPT !.orphaned_nodes_ = orphaned_nodes_,
                                          !.match_queue = match_queue,
                                          !.log = <<>>])
        IN  Rebound(RunBaseDriversCallback(TRUE, m))
  /\ \A resp \in FailedMatches, i \in DOMAIN LiveOnly(orphaned_nodes_) :
        MatchCallback(RunBaseDriversCallback(TRUE, "crash"),
                      LiveOnly(orphaned_nodes_)[i], resp, "ok").orphaned_nodes_
          = <<LiveOnly(orphaned_nodes_)[i]>>
  /\ \A m \in UBModes :
        NothingChanged(RunBaseDriversCallback(FALSE, m))

\* The orphaned set holds a Node that is alive and one that has been
\* freed, and a match request of another Node is in flight.
C13_Witness ==
  /\ \E i \in DOMAIN orphaned_nodes_ : Live(orphaned_nodes_[i])
  /\ \E i \in DOMAIN orphaned_nodes_ : ~Live(orphaned_nodes_[i])
  /\ match_queue # <<>>
  /\ Len(RunBaseDriversCallback(TRUE, "crash").match_queue)
       = Len(match_queue) + 1

\* StartDriver for Node n, and then the answer of the realm to CreateChild.
RunStartDriver(n, url, token, result) ==
  CreateCallback(StartDriver(Heap("crash"), n, url, token), result, FALSE)

\* C14 as stated: StartDriver returns an error and records no entry of
\* driver_args_ whenever the token cannot be made or the CreateChild call
\* fails, and records exactly one entry, for its Node, when it succeeds.
C14_StartDriverFailsWithCreateChild ==
  \A url \in Urls, token \in Tokens, result \in CreateChildResults :
     ContributorWaits
     => LET Done(h) ==
              IF token # "ok" \/ result # "ok"
              THEN h.ret # "ZX_OK" /\ h.driver_args_ = driver_args_
              ELSE /\ h.ret = "ZX_OK"
                   /\ h.driver_args_
                        = driver_args_ \cup {<<next_koid, Head(match_queue)>>}
                   /\ Cardinality(h.driver_args_)
                        = Cardinality(driver_args_) + 1
        IN  Done(RunStartDriver(Head(match_queue), url, token, result))

\* C15: a Start request without numbered handles, with two handles, with an
\* invalid handle, with a handle of another id or with a handle whose koid
\* cannot be read is closed with ZX_ERR_INVALID_ARGS; a request whose koid
\* is not in driver_args_ is closed with ZX_ERR_UNAVAILABLE; either way
\* driver_args_, driver_hosts_, drivers_ and every Node stay as they were.
C15_BadStartRequestRefused ==
  \A req \in StartRequests, m \in UBModes :
     /\ req.handles \in {"none", "two", "invalid", "wrong_id", "no_info"}
        => /\ RunStart(req, m).ret = "ZX_ERR_INVALID_ARGS"
           /\ NothingChanged(RunStart(req, m))
     /\ (req.handles = "ok" /\ \A t \in driver_args_ : t[1] # req.koid)
        => /\ RunStart(req, m).ret = "ZX_ERR_UNAVAILABLE"
           /\ NothingChanged(RunStart(req, m))

\* A token is pending for a live Node, a token handed out earlier has been
\* consumed, and a driver and a driver host are registered.
C15_Witness ==
  /\ \E t \in driver_args_ : Live(t[2])
  /\ \E k \in 1..(next_koid - 1) : \A t \in driver_args_ : t[1] # k
  /\ drivers_ # <<>> /\ driver_hosts_ # <<>>
  /\ \E req \in StartRequests : RunStart(req, "crash").ret = "ZX_ERR_UNAVAILABLE"

\* C16: start tokens are used once.  No two entries of driver_args_ have
\* the same koid and every koid in it was handed out before (StartDriver
\* takes a fresh one), so a token names one StartDriver.  A Start that
\* finds its token erases the entry, whatever happens to it afterwards
\* (success, or a failure at any later step), and a Start that presents
\* the token again is closed with ZX_ERR_UNAVAILABLE and changes nothing.
C16_TokenSingleUse ==
  /\ \A t, u \in driver_args_ : t[1] = u[1] => t = u
  /\ \A t \in driver_args_ : t[1] < next_koid
  /\ \A t \in driver_args_, c \in BOOLEAN, f \in StartFailures, m \in UBModes :
        LET Again(h, h2) ==
              /\ h2.ret = "ZX_ERR_UNAVAILABLE"
              /\ [h2 EXCEPT !.ret = h.ret] = h
            Used(h) ==
              /\ h.driver_args_ = driver_args_ \ {t}
              /\ \A c2 \in BOOLEAN :
                    Again(h, Start(h, StartRequest("ok", t[1], c2, "none")))
        IN  Used(RunStart(StartRequest("ok", t[1], c, f), m))

\* Two tokens are pending, one of them for a live Node other than the
\* root, and a token handed out earlier has been consumed by a Start that
\* created a driver.
C16_Witness ==
  /\ Cardinality(driver_args_) >= 2
  /\ \E t \in driver_args_ : Live(t[2]) /\ t[2] # 1
  /\ drivers_ # <<>>
  /\ \E t \in driver_args_ :
        RunStart(StartRequest("ok", t[1], FALSE, "host_start_rpc"), "crash").ret
          = "ZX_ERR_PEER_CLOSED"

\* The Start requests for the pending token t.
StartsOf(t) ==
  {StartRequest("ok", t[1], c, f) : c \in BOOLEAN, f \in StartFailures}

\* The launch of a driver host fails for req.
LaunchFails(req) == req.fail \in {"host_endpoints", "host_connect"}

\* C17: for a Start on the token of a live Node.  With colocation: for the
\* root the connection is closed with ZX_ERR_INVALID_ARGS and no driver
\* host is launched; any other Node keeps its driver host, which is the
\* one of its primary parent, no host is launched and driver_hosts_ stays
\* as it was.  Without colocation, when the launch does not fail, exactly
\* one driver host is launched, a new one; it becomes the host of the Node
\* and is appended to driver_hosts_.
C17_ColocateOrLaunch ==
  \A t \in driver_args_ : \A req \in StartsOf(t), m \in UBModes :
     Live(t[2])
     => LET NoLaunch(h) ==
              /\ Events(h, "CreateHost") = {}
              /\ h.driver_hosts_ = driver_hosts_
              /\ h.next_driver_host_id_ = next_driver_host_id_
              /\ h.nodes[t[2]].driver_host = nodes[t[2]].driver_host
            Colocated(h) ==
              /\ NoLaunch(h)
              /\ t[2] = 1 => h.ret = "ZX_ERR_INVALID_ARGS" /\ h.nodes = nodes
              /\ t[2] # 1
                 => /\ nodes[t[2]].parents # <<>>
                    /\ nodes[t[2]].driver_host
                         = nodes[PrimaryParent(nodes[t[2]].parents)].driver_host
                    /\ nodes[t[2]].driver_host \in Range(driver_hosts_)
            Launched(h) ==
              /\ Cardinality(Events(h, "CreateHost")) = 1
              /\ h.nodes[t[2]].driver_host \notin Range(driver_hosts_)
              /\ h.nodes[t[2]].driver_host # Nil
              /\ h.driver_hosts_
                   = Append(driver_hosts_, h.nodes[t[2]].driver_host)
        IN  /\ req.colocate => Colocated(RunStart(req, m))
            /\ (~req.colocate /\ ~LaunchFails(req)) => Launched(RunStart(req, m))

\* A token is pending for a live child of a Node that has a driver host: a
\* colocated Start of the child starts its driver in that host, and a
\* Start without colocation launches one more host.
C17_Witness ==
  \E t \in driver_args_ :
     /\ Live(t[2]) /\ t[2] # 1 /\ driver_hosts_ # <<>>
     /\ RunStart(StartRequest("ok", t[1], TRUE, "none"), "crash").ret = "ZX_OK"
     /\ Len(RunStart(StartRequest("ok", t[1], FALSE, "none"), "crash")
              .driver_hosts_) = Len(driver_hosts_) + 1

\* The status a Start for Node n is closed with, by the step that fails.
FailureStatus(n, req) ==
  CASE req.colocate /\ n = 1 -> "ZX_ERR_INVALID_ARGS"
    [] ~req.colocate /\ req.fail = "host_endpoints" -> "ZX_ERR_NO_MEMORY"
    [] ~req.colocate /\ req.fail = "host_connect" -> "ZX_ERR_INTERNAL"
    [] req.fail \in {"node_endpoints", "driver_endpoints"} /\ ~(req.colocate /\ n = 1)
         -> "ZX_ERR_NO_MEMORY"
    [] req.fail = "host_start_rpc" /\ ~(req.colocate /\ n = 1)
         -> "ZX_ERR_PEER_CLOSED"
    [] OTHER -> "ZX_OK"

\* C18: when a Start on the token of a live Node fails after the token was
\* consumed (colocation asked for the root, the launch of the driver host,
\* the creation of endpoints, or the Start call to the driver host), the
\* connection is closed with the status of the failing step, the Node has
\* no DriverComponent, components and drivers_ stay as they were, and
\* nothing retries: no token is made, no component is created for a
\* driver, no match request is issued and nothing is orphaned.
C18_FailedStartLeavesNodeUnbound ==
  \A t \in driver_args_ : \A req \in StartsOf(t), m \in UBModes :
     (Live(t[2]) /\ FailureStatus(t[2], req) # "ZX_OK")
     => LET Failed(h) ==
              /\ h.ret = FailureStatus(t[2], req)
              /\ h.ub = "none"
              /\ h.nodes[t[2]].driver_component = Nil
              /\ h.components = components
              /\ h.drivers_ = drivers_
              /\ h.driver_args_ = driver_args_ \ {t}
              /\ h.next_koid = next_koid
              /\ h.match_queue = match_queue
              /\ h.orphaned_nodes_ = orphaned_nodes_
              /\ h.composite_args_ = composite_args_
              /\ Events(h, "CreateChild") \cup Events(h, "MatchDriver")
                   \cup Events(h, "Orphaned") = {}
        IN  Failed(RunStart(req, m))

\* A token is pending for a live Node other than the root; a Start on it
\* fails in the driver host after a host was launched for it, and another
\* fails before any host is launched.
C18_Witness ==
  \E t \in driver_args_ :
     /\ Live(t[2]) /\ t[2] # 1
     /\ RunStart(StartRequest("ok", t[1], FALSE, "host_start_rpc"), "crash").ret
          = "ZX_ERR_PEER_CLOSED"
     /\ Events(RunStart(StartRequest("ok", t[1], FALSE, "host_start_rpc"),
                        "crash"), "HostStart") # {}
     /\ RunStart(StartRequest("ok", t[1], FALSE, "host_endpoints"), "crash")
          .driver_hosts_ = driver_hosts_

\* C19: once Remove has been called on a Node its driver_binder_ is
\* cleared for good, and every AddChild on it, whatever the request holds
\* (valid or with any defect of the name, the offers or the symbols),
\* replies NodeRemoved and changes nothing; the same in the state in which
\* a Remove on the Node has just ended.
C19_RemovedNodeRefusesAddChild ==
  /\ \A n \in DOMAIN nodes : nodes[n].removal_in_progress => ~nodes[n].driver_binder
  /\ \A n \in DOMAIN nodes, req \in AddChildRequests :
        (CanAddChild(n) /\ nodes[n].removal_in_progress)
        => /\ RunAddChild(n, req).ret = "kNodeRemoved"
           /\ NothingChanged(RunAddChild(n, req))
  /\ \A n \in DOMAIN nodes, m \in UBModes :
        LET Refused(h) ==
              (h.ub = "none" /\ ~h.nodes[n].freed)
              => \A req \in AddChildRequests :
                    /\ AddChild(h, n, req).ret = "kNodeRemoved"
                    /\ [AddChild(h, n, req) EXCEPT !.ret = h.ret] = h
        IN  CanAddChild(n) => Refused(Remove(Heap(m), n))

\* A Node on which Remove was called still serves fdf::Node: it waits for
\* a child whose driver has to stop.
C19_Witness ==
  \E n \in DOMAIN nodes :
     /\ CanAddChild(n) /\ nodes[n].removal_in_progress
     /\ nodes[n].children # <<>>
     /\ \E req \in GoodRequests :
           ~Contains(ChildNames(nodes, n), req.name)
           /\ RunAddChild(n, req).ret = "kNodeRemoved"

\* The validation errors of AddChild.
ValidationErrors ==
  {"kNameMissing", "kNameInvalid", "kOfferSourceNameMissing",
   "kOfferRefExists", "kSymbolNameMissing", "kSymbolAddressMissing",
   "kSymbolAlreadyExists"}

\* The defect of one offer; an offer of unknown kind has no source name.
OfferDefect(o) ==
  IF o.tag = "kUnknown" \/ ~o.has_source_name THEN "kOfferSourceNameMissing"
  ELSE IF o.has_source \/ o.has_target THEN "kOfferRefExists"
  ELSE "ok"

\* The defect of symbol i among symbols.
SymbolDefect(symbols, i) ==
  IF ~symbols[i].has_name THEN "kSymbolNameMissing"
  ELSE IF ~symbols[i].has_address THEN "kSymbolAddressMissing"
  ELSE IF \E j \in 1..(i - 1) : symbols[j].name = symbols[i].name
       THEN "kSymbolAlreadyExists"
  ELSE "ok"

\* The first entry of a sequence of defects that is not "ok".
FirstDefect(d) ==
  IF \A i \in DOMAIN d : d[i] = "ok" THEN "ok"
  ELSE d[CHOOSE i \in DOMAIN d :
           d[i] # "ok" /\ \A j \in 1..(i - 1) : d[j] = "ok"]

\* What AddChild replies on a Node whose removal has not begun: the first
\* defect in the order name, offers, symbols.
ExpectedReply(n, req) ==
  IF ~req.has_name THEN "kNameMissing"
  ELSE IF \E i \in DOMAIN req.name : req.name[i] = "." THEN "kNameInvalid"
  ELSE IF \E c \in Range(nodes[n].children) : nodes[c].name = req.name
       THEN "kNameAlreadyExists"
  ELSE IF FirstDefect([i \in DOMAIN req.offers |-> OfferDefect(req.offers[i])])
            # "ok"
       THEN FirstDefect([i \in DOMAIN req.offers |-> OfferDefect(req.offers[i])])
  ELSE FirstDefect([i \in DOMAIN req.symbols |->
                      SymbolDefect(req.symbols, i)])

\* C20: on a Node whose removal has not begun AddChild replies the first
\* defect of the request in the order name, offers, symbols (success when
\* there is none), also when offers, properties or symbols before the
\* defective one were accepted; when the reply is a validation error the
\* child list is what it was, no match request is issued and nothing else
\* has changed.
C20_ValidationErrorChangesNothing ==
  \A n \in DOMAIN nodes, req \in AddChildRequests :
     (CanAddChild(n) /\ nodes[n].driver_binder)
     => /\ RunAddChild(n, req).ret = ExpectedReply(n, req)
        /\ RunAddChild(n, req).ret \in ValidationErrors
           => NothingChanged(RunAddChild(n, req))

\* A Node that has a child serves fdf::Node; a request is refused for its
\* second offer, one for its second symbol, and one for its name although
\* an offer of it is defective too.
C20_Witness ==
  \E n \in DOMAIN nodes :
     /\ CanAddChild(n) /\ nodes[n].driver_binder /\ nodes[n].children # <<>>
     /\ \E req \in BadRequests :
           Len(req.offers) = 2 /\ RunAddChild(n, req).ret = "kOfferRefExists"
     /\ \E req \in BadRequests :
           Len(req.symbols) = 2
           /\ RunAddChild(n, req).ret = "kSymbolAlreadyExists"
     /\ \E req \in BadRequests :
           req.offers # <<>> /\ RunAddChild(n, req).ret = "kNameInvalid"
     /\ {RunAddChild(n, req).ret : req \in BadRequests} = ValidationErrors

(***************************************************************************)
(* AddChild and what follows it (C21).                                     *)
(***************************************************************************)
\* An AddChild that passes validation replies success, appends the child
\* once to the child list of this Node with parent list <<this Node>>, and
\* issues one match request for it exactly when the request carries no
\* node server end.
C21_AddChildAppendsOnce ==
  \A n \in DOMAIN nodes : \A req \in AddChildRequests :
     (CanAddChild(n) /\ AddChildCheck(nodes, n, req) = "ok")
     => LET Added(h, child) ==
              /\ h.ret = "ok"
              /\ Len(h.nodes) = child
              /\ Count(h.nodes[n].children, child) = 1
              /\ h.nodes[n].children = Append(nodes[n].children, child)
              /\ h.nodes[child].parents = <<n>>
              /\ h.match_queue = IF req.node_valid THEN match_queue
                                 ELSE Append(match_queue, child)
              /\ Cardinality(Events(h, "MatchDriver"))
                   = IF req.node_valid THEN 0 ELSE 1
        IN  Added(RunAddChild(n, req), Len(nodes) + 1)

\* A child of one parent whose match request is answered: whatever the
\* answer and the token, the child stays in the child list of its parent.
C21_MatchFailureKeepsChild ==
  (match_queue # <<>> /\ Live(Head(match_queue))
     /\ Len(nodes[Head(match_queue)].parents) = 1)
  => \A resp \in MatchResponses, token \in Tokens, m \in UBModes :
        LET Kept(h, c) == Contains(h.nodes[nodes[c].parents[1]].children, c)
        IN  Kept(RunMatchResponse(resp, token, m), Head(match_queue))

\* The teardown that a failed Start left pending has run.
AfterStartFailure(h, c) ==
  IF h.ub = "none" /\ h.nodes[c].binding = "unbinding" THEN NodeUnbound(h, c)
  ELSE h

\* A child of one parent whose Start fails: the child stays in the child
\* list of its parent, also after the teardown the failure left pending.
C21_StartFailureKeepsChild ==
  \A t \in driver_args_ : \A req \in StartsOf(t), m \in UBModes :
     (Live(t[2]) /\ Len(nodes[t[2]].parents) = 1
        /\ nodes[t[2]].binding = "none"
        /\ FailureStatus(t[2], req) # "ZX_OK")
     => LET Kept(h, c) == Contains(h.nodes[nodes[c].parents[1]].children, c)
        IN  Kept(AfterStartFailure(RunStart(req, m), t[2]), t[2])

\* C21: an AddChild that passes validation replies success and appends the
\* child exactly once to the child list of this Node, with parent list
\* <<this Node>>; one match request is issued for the child exactly when
\* the request carries no node server end; a later failure of the match or
\* of the start of the driver does not remove the child.
C21_AddChildKeepsChild ==
  /\ C21_AddChildAppendsOnce
  /\ C21_MatchFailureKeepsChild
  /\ C21_StartFailureKeepsChild

(***************************************************************************)
(* The offers of a Node (C22).                                             *)
(***************************************************************************)
RECURSIVE PrimaryChain(_, _)
\* The Nodes from n up to the root along the primary parents.
PrimaryChain(ns, n) ==
  IF n = Nil THEN <<>>
  ELSE <<n>> \o PrimaryChain(ns, PrimaryParent(ns[n].parents))

\* The chain from n has a Node with a collection.
HasSource(ns, n) ==
  \E i \in DOMAIN PrimaryChain(ns, n) :
     ns[PrimaryChain(ns, n)[i]].collection # "kNone"

\* The nearest Node with a collection on the chain from n.
NearestSource(ns, n) ==
  LET chain == PrimaryChain(ns, n)
  IN  chain[CHOOSE i \in DOMAIN chain :
              /\ ns[chain[i]].collection # "kNone"
              /\ \A j \in 1..(i - 1) : ns[chain[j]].collection = "kNone"]

\* The offers that parent i of n contributes.
OffersOfParent(ns, n, i) ==
  IF Len(ns[n].parents) = 1 THEN ns[n].offers
  ELSE ns[ns[n].parents[i]].offers

RECURSIVE OffersBefore(_, _, _)
\* The number of offers that the parents before parent i contribute.
OffersBefore(ns, n, i) ==
  IF i <= 1 THEN 0
  ELSE OffersBefore(ns, n, i - 1) + Len(OffersOfParent(ns, n, i - 1))

\* CreateOffers on n gives, parent after parent, the offers of the parent,
\* each with the child reference of the nearest source of that parent.
OffersAsSpecified(ns, n) ==
  /\ \A i \in DOMAIN ns[n].parents :
        /\ ~ns[ns[n].parents[i]].freed
        /\ HasSource(ns, ns[n].parents[i])
  /\ Len(CreateOffers(ns, n)) = OffersBefore(ns, n, Len(ns[n].parents) + 1)
  /\ \A i \in DOMAIN ns[n].parents :
        \A j \in DOMAIN OffersOfParent(ns, n, i) :
           LET Is(offer, from, source) ==
                 /\ offer.has_source
                 /\ offer.source.name = TopoName(ns, source)
                 /\ offer.source.collection
                      = CollectionName(ns[source].collection)
                 /\ offer.source.collection # <<>>
                 /\ offer = [from EXCEPT !.has_source = TRUE,
                                         !.source = offer.source]
           IN  Is(CreateOffers(ns, n)[OffersBefore(ns, n, i) + j],
                  OffersOfParent(ns, n, i)[j],
                  NearestSource(ns, ns[n].parents[i]))

\* The handlers that call CreateComponent, run in the current state.
CreateOffersRuns ==
  (IF ContributorWaits
   THEN {RunMatchResponse(resp, "ok", m) :
           resp \in SuccessfulMatches, m \in UBModes}
   ELSE {})
  \cup (IF root_started THEN {}
        ELSE {RunStartRootDriver(url, "ok", m) : url \in Urls, m \in UBModes})

\* C22: whenever CreateOffers runs on a Node (for the component made by
\* StartDriver, or for the arguments of a re-bound orphan), each parent of
\* the Node has a nearest Node with a collection on its primary-parent
\* chain, every offer returned carries the topological name and the
\* collection name of that Node as its source, and the offers come in the
\* order of the parent list: the Node's own offers for a single parent,
\* each parent's offers for a composite Node.
C22_OffersNameNearestSource ==
  /\ \A h \in CreateOffersRuns :
        /\ h.ub = "none"
        /\ \A e \in Events(h, "CreateChild") :
              OffersAsSpecified(h.nodes, h.log[e].a)
  /\ \A i \in DOMAIN orphaned_nodes_ :
        Live(orphaned_nodes_[i]) => OffersAsSpecified(nodes, orphaned_nodes_[i])

\* A composite Node is made for the oldest match request and its driver is
\* started: its offers are those of a parent with offers, with a source
\* that is not the parent.
C22_Witness ==
  /\ ContributorWaits
  /\ \E resp \in CompositeResponses :
        LET Made(h, c) ==
              /\ h.made = c /\ Len(h.nodes) = c
              /\ Events(h, "CreateChild") # {}
              /\ CreateOffers(h.nodes, c) # <<>>
              /\ \E i \in DOMAIN h.nodes[c].parents :
                    /\ h.nodes[h.nodes[c].parents[i]].offers # <<>>
                    /\ NearestSource(h.nodes, h.nodes[c].parents[i])
                         # h.nodes[c].parents[i]
        IN  Made(RunMatchResponse(resp, "ok", "crash"), Len(nodes) + 1)

(***************************************************************************)
(* The OnBind event (C23).                                                 *)
(***************************************************************************)
\* In a match callback OnBind is sent only after StartDriver succeeded in
\* it: a token was recorded.
C23_OnBindAfterStartDriver ==
  \A resp \in MatchResponses, token \in Tokens, m \in UBModes :
     ContributorWaits
     => LET Sent(h) ==
              Events(h, "OnBind") # {}
              => /\ h.driver_args_ # driver_args_
                 /\ Events(h, "CreateChild") # {}
        IN  Sent(RunMatchResponse(resp, token, m))

\* A match callback that orphans a Node sends no OnBind.
C23_NoOnBindWhenOrphaned ==
  \A resp \in MatchResponses, token \in Tokens, m \in UBModes :
     ContributorWaits
     => LET Sent(h) == Events(h, "Orphaned") # {} => Events(h, "OnBind") = {}
        IN  Sent(RunMatchResponse(resp, token, m))

\* OnBind is sent on the controller of the Node of the match request and
\* on no other, and sending it changes no state.
C23_OnBindChangesNothing ==
  /\ \A resp \in MatchResponses, token \in Tokens, m \in UBModes :
        ContributorWaits
        => LET Sent(h) ==
                 \A e \in Events(h, "OnBind") :
                    /\ h.log[e].a = Head(match_queue)
                    /\ nodes[Head(match_queue)].controller_ref
           IN  Sent(RunMatchResponse(resp, token, m))
  /\ \A n \in DOMAIN nodes :
        Live(n) => NothingChanged([OnBind(Heap("crash"), n) EXCEPT !.log = <<>>])

\* C23: OnBind is sent on the controller of a Node only after a StartDriver
\* issued from the match callback of the Node succeeded; it is not sent in
\* a callback that orphans the Node; sending it changes no state.
C23_OnBindOnlyWhenBound ==
  /\ C23_OnBindAfterStartDriver
  /\ C23_NoOnBindWhenOrphaned
  /\ C23_OnBindChangesNothing

(***************************************************************************)
(* The end of a DriverComponent (C24).                                     *)
(***************************************************************************)
\* In h component d has been destroyed: it has left drivers_, its Node n
\* has no driver_component, and Remove was then called on n.
Destroyed(h, d, n) ==
  /\ ~Contains(h.drivers_, d)
  /\ h.nodes[n].driver_component = Nil
  /\ Len(h.log) >= 2
  /\ h.log[1] = Ev("DriverDestroyed", d, n)
  /\ h.log[2] = Ev("Remove", n, 0)

\* C24: when the channel of a driver to its host closes, the binding of
\* its component controller is closed, and when that binding is torn down
\* (after this close, or because its peer closed) the DriverComponent
\* leaves drivers_, the driver_component of its Node is cleared and Remove
\* is called on that Node; a Stop or Kill request calls Remove on the Node.
C24_DriverEndRemovesNode ==
  ub = "none" => \A d \in DOMAIN components : \A m \in UBModes :
     /\ CanDriverChannelClosed(d)
        => LET Closed(h) ==
                 /\ h.components[d].binding = "closing"
                 /\ ~h.components[d].driver_ref
                 /\ h.components[d].alive
                 /\ h.drivers_ = drivers_ /\ h.nodes = nodes /\ h.log = <<>>
                 /\ Destroyed(DestroyDriverComponent([h EXCEPT !.mode = m], d),
                              d, components[d].node)
           IN  Closed(RunDriverChannelClosed(d))
     /\ CanComponentUnbound(d)
        => /\ Contains(drivers_, d)
           /\ Destroyed(RunComponentUnbound(d, m), d, components[d].node)
     /\ CanComponentStop(d)
        => LET Asked(h) ==
                 /\ h.log # <<>>
                 /\ h.log[1] = Ev("Remove", components[d].node, 0)
                 /\ h.nodes[components[d].node].removal_in_progress
           IN  Asked(RunComponentStop(d, m))

\* The channel of the driver of a Node with a parent closes; when the
\* binding is then torn down the Node, which has no children, is erased
\* from its parent.
C24_Witness ==
  \E d \in DOMAIN components :
     /\ CanDriverChannelClosed(d) /\ CanComponentStop(d)
     /\ components[d].node # 1
     /\ nodes[components[d].node].driver_component = d
     /\ \E e \in Events(DestroyDriverComponent(RunDriverChannelClosed(d), d),
                        "Erase") :
          DestroyDriverComponent(RunDriverChannelClosed(d), d).log[e].b
            = components[d].node

(***************************************************************************)
(* Topological names (C25).                                                *)
(***************************************************************************)
NameDisk == <<"disk">>

\* AddChild("disk", no offers, no symbols), without a node server end.
RequestDisk == Request(TRUE, NameDisk, <<>>, <<>>, <<>>, FALSE)

RECURSIVE FirstParents(_, _)
\* n and its ancestors, each the first of the parent list of the one
\* before, from n upwards.
FirstParents(ns, n) ==
  IF ns[n].parents = <<>> THEN <<n>>
  ELSE <<n>> \o FirstParents(ns, ns[n].parents[1])

\* n hangs below the root: the ancestors of n are alive and end in the root.
Linked(ns, n) ==
  /\ \A i \in DOMAIN FirstParents(ns, n) : ~ns[FirstParents(ns, n)[i]].freed
  /\ FirstParents(ns, n)[Len(FirstParents(ns, n))] = 1

\* The pieces "name", ".", "name", ... of the names of the Nodes of chain,
\* last Node first.
RECURSIVE DottedNames(_, _)
DottedNames(ns, chain) ==
  IF Len(chain) = 1 THEN ns[chain[1]].name
  ELSE DottedNames(ns, Tail(chain)) \o <<".">> \o ns[chain[1]].name

\* C25: the topological name of a Node below the root is the names from
\* the root down to the Node, following the first parent at each step,
\* joined by "."; for a child "disk" of the root it is "root.disk", and for
\* a composite Node it is the topological name of its first parent
\* followed by ".composite".  Every Node that StartDriver names a
\* component after is below the root.
C25_TopoNameFollowsPrimaryParent ==
  /\ TopoName(nodes, 1) = <<"root">>
  /\ \A n \in DOMAIN nodes :
        (Live(n) /\ Linked(nodes, n))
        => /\ TopoName(nodes, n) = DottedNames(nodes, FirstParents(nodes, n))
           /\ SubSeq(TopoName(nodes, n), 1, 1) = <<"root">>
           /\ Len(nodes[n].parents) > 1
              => TopoName(nodes, n)
                   = TopoName(nodes, nodes[n].parents[1])
                       \o <<".", "composite">>
  /\ \A n \in DOMAIN nodes :
        (CanAddChild(n) /\ AddChildCheck(nodes, n, RequestDisk) = "ok")
        => LET Named(h, child) ==
                 /\ TopoName(h.nodes, child)
                      = TopoName(nodes, n) \o <<".", "disk">>
                 /\ n = 1 => TopoName(h.nodes, child) = <<"root", ".", "disk">>
           IN  Named(RunAddChild(n, RequestDisk), Len(nodes) + 1)
  /\ \A h \in CreateOffersRuns : \A e \in Events(h, "CreateChild") :
        Linked(h.nodes, h.log[e].a)

\* A composite Node whose parents have different names hangs below the
\* root, and the root takes a child "disk".
C25_Witness ==
  /\ CanAddChild(1) /\ AddChildCheck(nodes, 1, RequestDisk) = "ok"
  /\ \E k \in Composites :
        /\ Linked(nodes, k)
        /\ TopoName(nodes, nodes[k].parents[1])
             # TopoName(nodes, nodes[k].parents[2])

(***************************************************************************)
(* Collections (C26).                                                      *)
(***************************************************************************)
\* URLs for StartDriver: those of the driver index and some that hold the
\* boot scheme elsewhere, or nothing.
WideUrls ==
  Urls \cup {<<>>, kBootScheme, <<"fuchsia-pkg://", "fuchsia-boot://">>,
             <<"x", "fuchsia-boot://", "y">>}

\* The URL begins with the boot scheme.
IsBootUrl(url) == url # <<>> /\ url[1] = "fuchsia-boot://"

\* The Nodes StartDriver may be called for in this state.
StartDriverTargets ==
  (IF ContributorWaits THEN {Head(match_queue)} ELSE {})
  \cup (IF root_started THEN {} ELSE {1})

\* C26: StartDriver sets the collection of the Node to boot exactly when
\* the URL starts with "fuchsia-boot://" and to package otherwise, and the
\* component is created in the collection "boot-drivers" or "pkg-drivers"
\* accordingly; driver hosts are created in "driver-hosts"; the collection
\* none has the empty name.
C26_CollectionFollowsUrl ==
  /\ \A n \in StartDriverTargets, url \in WideUrls :
        LET Started(h) ==
              /\ h.nodes[n].collection
                   = IF IsBootUrl(url) THEN "kBoot" ELSE "kPackage"
              /\ h.log = <<Ev("CreateChild", n,
                              IF IsBootUrl(url) THEN <<"boot-drivers">>
                              ELSE <<"pkg-drivers">>)>>
        IN  Started(StartDriver(Heap("crash"), n, url, "ok"))
  /\ \A resp \in SuccessfulMatches, m \in UBModes :
        ContributorWaits
        => LET Created(h) ==
                 \A e \in Events(h, "CreateChild") :
                    /\ h.nodes[h.log[e].a].collection
                         = IF IsBootUrl(resp.url) THEN "kBoot" ELSE "kPackage"
                    /\ h.log[e].b = IF IsBootUrl(resp.url)
                                    THEN <<"boot-drivers">>
                                    ELSE <<"pkg-drivers">>
           IN  Created(RunMatchResponse(resp, "ok", m))
  /\ \A t \in driver_args_ : \A req \in StartsOf(t), m \in UBModes :
        Live(t[2])
        => LET Launched(h) ==
                 /\ \A e \in Events(h, "CreateHost") :
                       h.log[e].b = <<"driver-hosts">>
                 /\ Events(h, "CreateChild") = {}
           IN  Launched(RunStart(req, m))
  /\ CollectionName("kNone") = <<>>

\* A driver host has been launched and a match request waits for an
\* answer: a driver with a boot URL is started for the composite Node that
\* the answer completes.
C26_Witness ==
  /\ ContributorWaits
  /\ \E resp \in CompositeResponses :
        /\ IsBootUrl(resp.url)
        /\ RunMatchResponse(resp, "ok", "crash").made = Len(nodes) + 1
        /\ Events(RunMatchResponse(resp, "ok", "crash"), "CreateChild") # {}
  /\ Range(driver_hosts_) # {}

(***************************************************************************)
(* The iteration over the child list in Remove (C27).                      *)
(***************************************************************************)
\* The handlers that call Node::Remove, each run once in the current state
\* and ended in either mode.
RemoveHandlerRuns ==
  {RunRemove(n, m) : n \in {x \in DOMAIN nodes : Live(x)}, m \in UBModes}
  \cup {RunNodeUnbound(n, m) :
          n \in {x \in DOMAIN nodes : CanNodeUnbound(x)}, m \in UBModes}
  \cup {RunComponentStop(d, m) :
          d \in {x \in DOMAIN components : CanComponentStop(x)}, m \in UBModes}
  \cup {RunComponentUnbound(d, m) :
          d \in {x \in DOMAIN components : CanComponentUnbound(x)},
          m \in UBModes}

\* C27: while Remove iterates the child list of a Node, the Remove of a
\* child may erase that child and cascade back into the Remove of the
\* Node, but it erases no sibling that the iteration has yet to visit: the
\* iteration never visits an element that has been erased.
C27_NoSiblingErasedAhead ==
  \A h \in RemoveHandlerRuns :
     /\ Events(h, "EraseAhead") = {}
     /\ h.ub # "invalid_iterator"

(***************************************************************************)
(* The lifetime of a Node during Remove (C28).                             *)
(***************************************************************************)
\* C28: no frame of Remove reads or writes a Node after the last owner of
\* the Node (the child lists of its parents, its node binding, its
\* DriverComponent) has let go of it; in particular the frame of a Node
\* that called Remove on a child does not resume on a freed Node when the
\* child has cascaded back into the Remove of the Node.
C28_NoFrameOnFreedNode ==
  ub = "none" => \A h \in RemoveHandlerRuns : h.ub # "use_after_free"

(***************************************************************************)
(* The order of the phases of a removal (C29).                             *)
(***************************************************************************)
\* In the handler that ended in h, the driver of a Node is asked to stop
\* only after every child the Node had has been erased from its list.
StopAfterChildren(h) ==
  \A j \in Events(h, "Stop") :
     \A c \in Range(nodes[components[h.log[j].a].node].children) :
        Before(h, Ev("Erase", components[h.log[j].a].node, c), j)

\* In the handler that ended in h, a Node is erased from the list of a
\* parent only when it has no DriverComponent: it had none, or the one it
\* had was destroyed earlier in the handler.
EraseAfterDriver(h) ==
  \A j \in Events(h, "Erase") :
     \/ nodes[h.log[j].b].driver_component = Nil
     \/ Before(h, Ev("DriverDestroyed", nodes[h.log[j].b].driver_component,
                     h.log[j].b), j)

\* C29: the phases of a removal are ordered.  The driver of a Node is asked
\* to stop only when the child list of the Node is empty; a Node is erased
\* from the child lists of its parents only after its DriverComponent has
\* been destroyed and its driver_component cleared; a Node that has a
\* driver is in the child list of each of its parents.
C29_TeardownPhasesOrdered ==
  /\ \A h \in RemoveHandlerRuns : StopAfterChildren(h) /\ EraseAfterDriver(h)
  /\ \A d \in DOMAIN components :
        (components[d].alive /\ components[d].stop_in_progress)
        => nodes[components[d].node].children = <<>>
  /\ \A n \in DOMAIN nodes :
        (Live(n) /\ nodes[n].driver_component # Nil)
        => /\ n = 1 \/ nodes[n].parents # <<>>
           /\ \A i \in DOMAIN nodes[n].parents :
                 Contains(nodes[nodes[n].parents[i]].children, n)

\* A Node with a parent, a driver and a child: Remove on it erases the
\* child and then asks the driver to stop; when the driver is destroyed
\* after that, the Node is erased from its parent.
C29_Witness ==
  \E n \in DOMAIN nodes :
     /\ Live(n) /\ n # 1 /\ nodes[n].driver_component # Nil
     /\ nodes[n].children # <<>>
     /\ Events(RunRemove(n, "crash"), "Stop") # {}
     /\ RunRemove(n, "crash").ub = "none"
     /\ Ev("Erase", nodes[n].parents[1], n)
          \in Range(DestroyDriverComponent(RunRemove(n, "crash"),
                                           nodes[n].driver_component).log)

(***************************************************************************)
(* Refused composite arguments (C30).                                      *)
(***************************************************************************)
\* The composite answer resp is one to refuse in this state: an index or a
\* count is missing, the index is not below the count, the driver info or
\* its URL is missing, or a pending set of the URL has another number of
\* slots.
RefusedComposite(resp) ==
  /\ resp.kind = "composite"
  /\ \/ ~resp.has_node_index \/ ~resp.has_num_nodes
     \/ resp.node_index >= resp.num_nodes
     \/ ~resp.has_driver_info \/ ~resp.has_url
     \/ \E i \in DOMAIN composite_args_ :
           /\ composite_args_[i].url = resp.url
           /\ Len(composite_args_[i].nodes) # resp.num_nodes

\* C30: when the composite answer to the match request of a live Node is
\* one to refuse, AddToCompositeArgs gives ZX_ERR_INVALID_ARGS, and the
\* callback appends the Node to orphaned_nodes_ and does nothing else: no
\* pending set is created or changed, no composite Node is created, no
\* StartDriver is issued.
C30_RefusedCompositeOrphans ==
  \A resp \in MatchResponses, token \in Tokens, m \in UBModes :
     (ContributorWaits /\ RefusedComposite(resp))
     => LET Refused(h) ==
              /\ h.ret = "ZX_ERR_INVALID_ARGS"
              /\ NothingChanged(h)
            Orphaned(h) ==
              /\ h.ub = "none"
              /\ h.orphaned_nodes_ = Append(orphaned_nodes_, Head(match_queue))
              /\ h.log = <<Ev("Orphaned", Head(match_queue), 0)>>
              /\ NothingChanged([h EXCEPT !.orphaned_nodes_ = orphaned_nodes_,
                                          !.match_queue = match_queue,
                                          !.log = <<>>])
        IN  /\ Refused(AddToCompositeArgs(Heap("crash"), resp))
            /\ Orphaned(RunMatchResponse(resp, token, m))

\* A pending set of two slots exists for a URL and a contributor waits: an
\* answer for that URL with three slots is refused, and so is one whose
\* index is not below the count.
C30_Witness ==
  /\ ContributorWaits
  /\ \E i \in DOMAIN composite_args_ :
        /\ composite_args_[i].url = UrlBoot
        /\ Len(composite_args_[i].nodes) = 2
  /\ RefusedComposite(Response("composite", TRUE, TRUE, UrlBoot, TRUE, 0, TRUE, 3))
  /\ RunMatchResponse(Response("composite", TRUE, TRUE, UrlBoot, TRUE, 0, TRUE, 3),
                      "ok", "crash").orphaned_nodes_
       = Append(orphaned_nodes_, Head(match_queue))
  /\ RefusedComposite(Response("composite", TRUE, TRUE, UrlBoot, TRUE, 2, TRUE, 2))

(***************************************************************************)
(* The symbols handed to a driver host (C31).                              *)
(***************************************************************************)
\* C31: the symbols handed to a driver host at the start of the driver of
\* a Node are non-empty only if the Node has a primary parent whose driver
\* host is the driver host of the Node; they are then the symbols of the
\* Node, or those of the primary parent when the Node is composite; a Node
\* started in a host launched for it, and the root, get no symbols.
C31_SymbolsOnlyWhenColocated ==
  \A t \in driver_args_ : \A req \in StartsOf(t), m \in UBModes :
     Live(t[2])
     => LET Handed(h, n) ==
              \A e \in Events(h, "Symbols") :
                 /\ h.log[e].a = n
                 /\ h.log[e].b # <<>>
                    => /\ nodes[n].parents # <<>>
                       /\ h.nodes[nodes[n].parents[1]].driver_host
                            = h.nodes[n].driver_host
                       /\ h.log[e].b = IF Len(nodes[n].parents) > 1
                                       THEN nodes[nodes[n].parents[1]].symbols
                                       ELSE nodes[n].symbols
                 /\ (nodes[n].parents # <<>> /\ req.colocate)
                    => h.log[e].b = IF Len(nodes[n].parents) > 1
                                    THEN nodes[nodes[n].parents[1]].symbols
                                    ELSE nodes[n].symbols
                 /\ (~req.colocate \/ n = 1) => h.log[e].b = <<>>
        IN  Handed(RunStart(req, m), t[2])

\* A token is pending for a Node that has symbols: started in the host of
\* its parent it is handed its symbols, started in a host of its own none.
C31_Witness ==
  \E t \in driver_args_ :
     /\ Live(t[2]) /\ nodes[t[2]].symbols # <<>>
     /\ Ev("Symbols", t[2], nodes[t[2]].symbols)
          \in Range(RunStart(StartRequest("ok", t[1], TRUE, "none"), "crash").log)
     /\ Ev("Symbols", t[2], <<>>)
          \in Range(RunStart(StartRequest("ok", t[1], FALSE, "none"), "crash").log)

(***************************************************************************)
(* A removal without drivers (C32).                                        *)
(***************************************************************************)
RECURSIVE Below(_, _)
\* The Nodes of S and all they reach along child links.
Below(ns, S) ==
  LET T == S \cup UNION {Range(ns[x].children) : x \in S}
  IN  IF T = S THEN S ELSE Below(ns, T)

\* In h Node x is unlinked: its parent list is empty and it is in no child
\* list.
Unlinked(h, x) ==
  /\ h.nodes[x].parents = <<>>
  /\ \A y \in DOMAIN h.nodes : ~Contains(h.nodes[y].children, x)

\* C32: when neither the Node nor any Node below it (along child links,
\* composite children included) has a driver, one call of Remove on the
\* Node ends without undefined behaviour, and when it returns the Node and
\* every Node below it are unlinked: each has an empty parent list and is
\* in no child list.
C32_DriverlessRemoveUnlinksAll ==
  ub = "none" =>
    \A n \in DOMAIN nodes : \A m \in UBModes :
       (Live(n) /\ \A x \in Below(nodes, {n}) : nodes[x].driver_component = Nil)
       => LET Done(h) ==
                /\ h.ub = "none"
                /\ \A x \in Below(nodes, {n}) : Unlinked(h, x)
          IN  Done(RunRemove(n, m))

\* The same for a Node below which there is no composite Node: this part
\* holds.
C32_DriverlessTreeUnlinksAll ==
  ub = "none" =>
    \A n \in DOMAIN nodes : \A m \in UBModes :
       (/\ Live(n)
        /\ \A x \in Below(nodes, {n}) :
              nodes[x].driver_component = Nil /\ Len(nodes[x].parents) < 2)
       => LET Done(h) ==
                /\ h.ub = "none"
                /\ \A x \in Below(nodes, {n}) : Unlinked(h, x)
          IN  Done(RunRemove(n, m))

(***************************************************************************)
(* C33.  Removal makes progress.                                           *)
(***************************************************************************)
\* Remove has been invoked on n and n has not been destroyed.
Removing(n) == Live(n) /\ nodes[n].removal_in_progress

\* n is destroyed, or has no parent and is in no child list.
UnlinkedNow(n) ==
  \/ n \in DOMAIN nodes /\ nodes[n].freed
  \/ /\ Live(n) /\ nodes[n].parents = <<>>
     /\ \A p \in DOMAIN nodes : ~Contains(nodes[p].children, n)

\* n waits for nothing, and yet is still linked.
Stuck(n) ==
  /\ Removing(n) /\ nodes[n].children = <<>>
  /\ nodes[n].driver_component = Nil /\ ~UnlinkedNow(n)

C33_RemovalCompletesUnlessUndefined ==
  \A n \in 1..MaxNodes :
     Removing(n) ~> (\/ ub # "none"
                     \/ /\ n \in DOMAIN nodes
                        /\ \A x \in Below(nodes, {n}) : UnlinkedNow(x))

\* C33, second part: no Node is ever left with removal in progress, no
\* child and no driver, and still linked.
C33_NeverStuck == ub = "none" => \A n \in DOMAIN nodes : ~Stuck(n)

\* Read to the letter, the second part asks more: that no Node rests in
\* that state even when it is unlinked.  The root does: the runner owns it,
\* it is never destroyed.
C33_NoNodeRestsInRemoval ==
  \A n \in 1..MaxNodes :
     ~<>[](/\ ub = "none" /\ Removing(n)
           /\ nodes[n].children = <<>> /\ nodes[n].driver_component = Nil)

\* No Node but the root rests in it.
C33_OnlyRootRestsInRemoval ==
  \A n \in 2..MaxNodes :
     ~<>[](/\ ub = "none" /\ Removing(n)
           /\ nodes[n].children = <<>> /\ nodes[n].driver_component = Nil)

(***************************************************************************)
(* C34.  Parent and child links agree.                                     *)
(***************************************************************************)
\* C34: between handlers a Node n is in the child list of p exactly once
\* when p is in the parent list of n and not at all otherwise, and no
\* parent list names a destroyed Node.
C34_LinksAgree ==
  \A n \in DOMAIN nodes : \A p \in DOMAIN nodes :
     /\ Contains(nodes[n].parents, p) => Count(nodes[p].children, n) = 1
     /\ ~Contains(nodes[n].parents, p) => Count(nodes[p].children, n) = 0
     /\ Contains(nodes[n].parents, p) => Live(n) /\ Live(p)

\* A Node was unlinked and is still alive, beside a Node that is linked to
\* its parent.
C34_Witness ==
  /\ ub = "none"
  /\ \E n \in DOMAIN nodes :
        /\ Live(n) /\ n # 1 /\ nodes[n].removal_in_progress
        /\ nodes[n].parents = <<>>
  /\ \E c \in DOMAIN nodes :
        Live(c) /\ nodes[c].parents # <<>> /\ ~nodes[c].removal_in_progress

\* A composite Node is linked to both its parents.
C34_WitnessComposite ==
  /\ ub = "none"
  /\ \E c \in DOMAIN nodes : Live(c) /\ Len(nodes[c].parents) = 2

(***************************************************************************)
(* C35.  A Node in removal gains no child.                                 *)
(***************************************************************************)
\* The child list of n in ns2 has an element that it has not in ns1.
GainsChild(ns1, ns2, n) ==
  \E c \in Range(ns2[n].children) : ~Contains(ns1[n].children, c)

\* C35: no step adds an element to the child list of a Node on which
\* Remove has been invoked.
C35_NoChildAfterRemove ==
  [][\A n \in DOMAIN nodes :
        nodes[n].removal_in_progress => ~GainsChild(nodes, nodes', n)]_vars

\* The same for every request and every answer of the driver index, not
\* only those of the specification: whatever AddChild request arrives and
\* whatever the index answers, no Node in removal gains a child.
C35_NoHandlerAttachesToRemoved ==
  ub = "none" =>
    \A n \in DOMAIN nodes :
       nodes[n].removal_in_progress =>
         /\ \A p \in DOMAIN nodes : \A req \in AddChildRequests :
               CanAddChild(p) => ~GainsChild(nodes, RunAddChild(p, req).nodes, n)
         /\ \A resp \in MatchResponses : \A m \in UBModes :
               match_queue # <<>> =>
                 ~GainsChild(nodes, RunMatchResponse(resp, "ok", m).nodes, n)

\* A bound Node is in removal and waits for a child: its clients may still
\* call AddChild, and the index still owes an answer.
C35_Witness ==
  /\ ub = "none" /\ match_queue # <<>>
  /\ \E n \in DOMAIN nodes :
        /\ Removing(n) /\ nodes[n].children # <<>>
        /\ CanAddChild(n)

(***************************************************************************)
(* C36.  A Node is pending in one way at most.                             *)
(***************************************************************************)
\* n fills a slot of a pending composite set.
InSlot(h, n) ==
  \E i \in DOMAIN h.composite_args_ :
     \E k \in DOMAIN h.composite_args_[i].nodes :
        h.composite_args_[i].nodes[k] = n

\* The tokens of driver_args_ that stand for n.
TokensOf(h, n) == {t \in h.driver_args_ : t[2] = n}

\* In h every live Node is orphaned once at most, an orphaned Node fills no
\* slot and has no token, and no Node has two tokens.
PendingOnce(h) ==
  \A n \in DOMAIN h.nodes :
     ~h.nodes[n].freed =>
       /\ Count(h.orphaned_nodes_, n) <= 1
       /\ Contains(h.orphaned_nodes_, n)
            => ~InSlot(h, n) /\ TokensOf(h, n) = {}
       /\ Cardinality(TokensOf(h, n)) <= 1

\* C36: in every reachable state, and after every answer of the driver
\* index to a match request or to WaitForBaseDrivers, a live Node is
\* pending in one way at most.
C36_PendingOnce ==
  ub = "none" =>
    /\ PendingOnce(Heap("crash"))
    /\ \A resp \in MatchResponses : \A token \in Tokens : \A m \in UBModes :
          match_queue # <<>> =>
            LET Ok(h) == h.ub # "none" \/ PendingOnce(h)
            IN  Ok(RunMatchResponse(resp, token, m))
    /\ \A ok \in BOOLEAN : \A m \in UBModes :
          LET Ok(h) == h.ub # "none" \/ PendingOnce(h)
          IN  Ok(RunBaseDriversCallback(ok, m))

\* The index is about to answer WaitForBaseDrivers while one Node is
\* orphaned and another has a token.
C36_Witness ==
  /\ ub = "none" /\ wait_pending
  /\ \E n \in DOMAIN nodes : Live(n) /\ Contains(orphaned_nodes_, n)
  /\ \E n \in DOMAIN nodes : Live(n) /\ TokensOf(Heap("crash"), n) # {}

(***************************************************************************)
(* C37.  A Node and its DriverComponent refer to each other.               *)
(***************************************************************************)
\* The DriverComponents of the registry whose node_ is n.
DriversOf(n) ==
  {d \in Range(drivers_) : components[d].alive /\ components[d].node = n}

\* C37: a Node has its driver_component set exactly when one
\* DriverComponent of drivers_ has the Node as its node_, and then it is
\* that one; no two DriverComponents have the same Node.
C37_OneDriverPerNode ==
  ub = "none" =>
    \A n \in DOMAIN nodes :
       /\ Cardinality(DriversOf(n)) <= 1
       /\ Live(n) =>
            /\ nodes[n].driver_component # Nil <=> DriversOf(n) # {}
            /\ nodes[n].driver_component # Nil
                 => DriversOf(n) = {nodes[n].driver_component}
       /\ ~Live(n) => DriversOf(n) = {}

\* One DriverComponent has been destroyed, and the Node of another one
\* still refers to its own.
C37_Witness ==
  /\ ub = "none"
  /\ \E d \in DOMAIN components : ~components[d].alive
  /\ \E n \in DOMAIN nodes :
        /\ Live(n) /\ nodes[n].driver_component # Nil
        /\ DriversOf(n) = {nodes[n].driver_component}

\* Destroying a DriverComponent clears the reference of its own Node and
\* of no other.
C37_DestroyClearsOwnNodeOnly ==
  ub = "none" =>
    \A d \in DOMAIN components : \A m \in UBModes :
       CanComponentUnbound(d) =>
         LET Kept(h) ==
               h.ub = "none" =>
                 \A n \in DOMAIN nodes :
                    (Live(n) /\ n # components[d].node)
                    => h.nodes[n].driver_component = nodes[n].driver_component
         IN  Kept(RunComponentUnbound(d, m))

(***************************************************************************)
(* C38.  Stop is sent to a driver once at most.                            *)
(***************************************************************************)
\* The number of Stop requests that the handler that ended in h sent to d.
StopsSent(h, d) ==
  Cardinality({i \in Events(h, "Stop") : h.log[i].a = d})

\* Remove on n, where a Stop call that Remove makes has the result ok, and
\* then Remove on p, where it succeeds.
RemoveTwice(n, p, ok, mode) ==
  Remove([Remove([Heap(mode) EXCEPT !.stop_ok = ok], n) EXCEPT !.stop_ok = TRUE],
         p)

\* C38: two calls of Remove, on the same Node or on a Node and one above or
\* below it, send Stop to a driver once at most, and not at all when it
\* has been sent before; so also when the first call of Stop failed.
C38_StopSentOnce ==
  ub = "none" =>
    \A n \in DOMAIN nodes : \A p \in DOMAIN nodes :
       \A ok \in BOOLEAN : \A m \in UBModes :
          (Live(n) /\ Live(p)) =>
            LET Once(h) ==
                  h.ub = "none" =>
                    \A d \in DOMAIN components :
                       /\ StopsSent(h, d) <= 1
                       /\ components[d].stop_in_progress => StopsSent(h, d) = 0
                       /\ (StopsSent(h, d) = 1 /\ h.components[d].alive)
                            => h.components[d].stop_in_progress
            IN  Once(RemoveTwice(n, p, ok, m))

\* The mark that Stop has been sent stays as long as the driver lives.
C38_StopMarkStays ==
  [][\A d \in DOMAIN components :
        (components[d].stop_in_progress /\ components'[d].alive)
        => components'[d].stop_in_progress]_vars

\* A driver has been asked to stop and is still bound, and Remove can be
\* invoked again on its Node, which is below the root.
C38_Witness ==
  /\ ub = "none"
  /\ \E d \in DOMAIN components :
        /\ components[d].alive /\ components[d].stop_in_progress
        /\ components[d].driver_ref
        /\ CanRemove(components[d].node)
        /\ nodes[components[d].node].parents # <<>>

(***************************************************************************)
(* C39.  The driver host of a Node is in the registry.                     *)
(***************************************************************************)
\* C39: the driver_host_ of a live Node is a DriverHostComponent of
\* driver_hosts_.
C39_DriverHostInRegistry ==
  ub = "none" =>
    \A n \in DOMAIN nodes :
       (Live(n) /\ nodes[n].driver_host # Nil)
       => Contains(driver_hosts_, nodes[n].driver_host)

\* The colocated Start requests that carry the token of a live Node.
ColocatedStarts ==
  {StartRequest("ok", t[1], TRUE, "none") : t \in {u \in driver_args_ : Live(u[2])}}

\* C39, the case of Start: a colocated Start for a live Node calls Start
\* on a DriverHostComponent of driver_hosts_.
C39_ColocatedStartOnLiveHost ==
  ub = "none" =>
    \A req \in ColocatedStarts : \A m \in UBModes : RunStart(req, m).ub = "none"

\* C39, the case of the Node without driver host: a colocated Start for a
\* live Node finds a driver host in the Node, or is refused.
C39_ColocatedStartHasHost ==
  ub = "none" =>
    \A req \in ColocatedStarts : \A m \in UBModes :
       RunStart(req, m).ub # "null_deref"

\* A colocated Start is due for a live Node below the root, which has a
\* driver host.
C39_WitnessHasHost ==
  /\ ub = "none"
  /\ \E req \in ColocatedStarts :
        /\ TokenNode(driver_args_, req.koid) # 1
        /\ nodes[TokenNode(driver_args_, req.koid)].driver_host # Nil
        /\ RunStart(req, "crash").ret = "ZX_OK"

(***************************************************************************)
(* C40: the hooks of a compat Device at its destruction.                   *)
(***************************************************************************)
\* What every handler that can destroy a Device leaves, from the state the
\* Devices are in: Add with metadata that is refused, the teardown of a
\* NodeController channel, Remove, RebindToLibname, the driver's shutdown.
DestroyRuns ==
  {DeviceAdd(DeviceHeap, p, u, r, FALSE) :
     p \in {d \in DOMAIN devices : devices[d].alive},
     u \in BOOLEAN, r \in BOOLEAN}
  \cup {ControllerTeardown(DeviceHeap, d) :
          d \in {x \in DOMAIN devices :
                   devices[x].alive /\ devices[x].controller = "bound"}}
  \cup {DeviceRemove(DeviceHeap, d, res) :
          d \in {x \in DOMAIN devices : devices[x].alive},
          res \in RemoveResults}
  \cup {RebindToLibname(DeviceHeap, d, res) :
          d \in {x \in DOMAIN devices :
                   devices[x].alive /\ ~devices[x].pending_rebind},
          res \in RemoveResults}
  \cup {DestroyDevice(DeviceHeap, d) : d \in {x \in {1} : devices[x].alive}}

\* The Devices a run destroyed, and the calls of one hook of one Device.
DestroyedDevices(g) ==
  {g.log[i].a : i \in {j \in DOMAIN g.log : g.log[j].ev = "destroy"}}

Hooks(g, d, kind) ==
  {i \in DOMAIN g.log : g.log[i].ev = kind /\ g.log[i].a = d}

\* The order and the number of the calls: a hook that is present is called
\* once when the Device has a parent and never when it has none, unbind
\* comes before release.
HooksInOrder(g, d) ==
  LET dev == g.devices[d]
      owned == dev.parent # Nil
  IN  /\ Cardinality(Hooks(g, d, "destroy")) = 1
      /\ Cardinality(Hooks(g, d, "unbind")) =
           IF owned /\ dev.unbind THEN 1 ELSE 0
      /\ Cardinality(Hooks(g, d, "release")) =
           IF owned /\ dev.release THEN 1 ELSE 0
      /\ \A i \in Hooks(g, d, "unbind"), j \in Hooks(g, d, "release") : i < j

\* children_ is empty at every call of a hook of the Device.
HooksWithoutChildren(g, d) ==
  \A i \in Hooks(g, d, "unbind") \cup Hooks(g, d, "release") : g.log[i].b = 0

\* C40: whenever a compat Device that has a parent is destroyed, its unbind
\* hook, if it has one, is called before its release hook, if it has one,
\* each once at most, and the Device has no children at that point; for a
\* Device without parent neither hook is called.
C40_HooksInOrderAndNoChildren ==
  \A g \in DestroyRuns : \A d \in DestroyedDevices(g) :
    HooksInOrder(g, d) /\ HooksWithoutChildren(g, d)

\* C40 without the part about the children: the order and the number of the
\* calls are as the claim has them, for every Device a handler destroys.
C40_HooksInOrder ==
  \A g \in DestroyRuns : \A d \in DestroyedDevices(g) : HooksInOrder(g, d)

\* C40, the part about the children alone: no hook of a Device is called
\* while children_ of that Device holds a child.
C40_NoChildrenAtHooks ==
  \A g \in DestroyRuns : \A d \in DestroyedDevices(g) : HooksWithoutChildren(g, d)

\* C40, what the code does give: the hooks of a Device are called before
\* the hooks of any Device below it, parent first.
C40_ParentBeforeChild ==
  \A g \in DestroyRuns : \A c \in DestroyedDevices(g) :
    LET p == g.devices[c].parent
    IN  (p # Nil /\ p \in DestroyedDevices(g)) =>
          \A i \in Hooks(g, p, "unbind") \cup Hooks(g, p, "release"),
             j \in Hooks(g, c, "unbind") \cup Hooks(g, c, "release") : i < j

\* A Device that has a parent, both hooks and a child of its own, with its
\* NodeController channel bound: the teardown of the channel destroys it.
C40_DeviceWithChildDestroyed ==
  \E d \in DOMAIN devices :
    /\ devices[d].alive /\ devices[d].parent # Nil
    /\ devices[d].unbind /\ devices[d].release
    /\ devices[d].children # <<>>
    /\ devices[d].controller = "bound"
    /\ d \in DestroyedDevices(ControllerTeardown(DeviceHeap, d))

\* The Device without parent has both hooks and is destroyed at shutdown.
C40_ParentlessDestroyed ==
  /\ devices[1].alive /\ devices[1].unbind /\ devices[1].release
  /\ devices[1].children # <<>>
  /\ 1 \in DestroyedDevices(DestroyDevice(DeviceHeap, 1))

=============================================================================
